---- MODULE Spec2Model ----
(***************************************************************************)
(* A model of the AST-to-IR lowering of rs_bindings_from_cc/ast_visitor.cc *)
(* (AstVisitor): the traversal driver, the declaration importers, the type *)
(* mapper, the comment manager and the emitter.                            *)
(*                                                                         *)
(* The parser (Clang) is an external collaborator.  Its answers are the    *)
(* attributes of a fixture of declarations, types, files and comments      *)
(* (Decls, Files, Comments below); a translation unit is a subsequence of  *)
(* the fixture's declarations, chosen declaration by declaration.          *)
(***************************************************************************)
EXTENDS Integers, Sequences, FiniteSets, TLC

(***************************************************************************)
(* Bounds of the model.                                                    *)
(***************************************************************************)
\* The number of declarations of one translation unit.
MaxDecls == 3
\* Characters per line of the fixture's files (an offset is line * width + column).
LineWidth == 10

(***************************************************************************)
(* Small helpers.                                                          *)
(***************************************************************************)
Range(s) == {s[i] : i \in DOMAIN s}

Min(S) == CHOOSE m \in S : \A n \in S : m <= n

\* std::optional: <<>> is nullopt, <<v>> holds v.
None == <<>>
Some(v) == <<v>>

RECURSIVE Concat(_)
Concat(ss) == IF ss = <<>> THEN <<>> ELSE Head(ss) \o Concat(Tail(ss))

(***************************************************************************)
(* Files, source locations and the source manager.                         *)
(***************************************************************************)
\* A SourceLocation: a file and an offset in it.  The invalid location has
\* the invalid FileID.
NoFile == "<invalid>"
InvalidLoc == [f |-> NoFile, o |-> 0]
Loc(f, o) == [f |-> f, o |-> o]
isValid(l) == l.f # NoFile
getFileID(l) == l.f

\* The files of the fixture.  A file name is a sequence of path tokens, so
\* that a leading "./" can be stripped.  main is the virtual main file that
\* includes the public header a.h; a.h includes b.h between its declarations.
\* No declaration of the fixture is in the other files: the system headers
\* stddef.h (included from a.h) and m.h (a header with a target of its own,
\* included from main), the textual header t.inc (included from b.h), the
\* header u.h without a target (included from main), the textual header
\* v.inc included from stddef.h, and the buffer of the builtins.  n.h, which
\* includes o.h, holds the translation unit with namespaces.
Files ==
  [ main  |-> [name |-> <<"main.cc">>,     named |-> TRUE, system |-> FALSE, include |-> InvalidLoc],
    a     |-> [name |-> <<"./", "a.h">>,   named |-> TRUE, system |-> FALSE, include |-> Loc("main", 1)],
    b     |-> [name |-> <<"b.h">>,         named |-> TRUE, system |-> FALSE, include |-> Loc("a", 30)],
    sys   |-> [name |-> <<"stddef.h">>,    named |-> TRUE, system |-> TRUE,  include |-> Loc("a", 1)],
    m     |-> [name |-> <<"m.h">>,         named |-> TRUE, system |-> TRUE,  include |-> Loc("main", 2)],
    t     |-> [name |-> <<"./", "t.inc">>, named |-> TRUE, system |-> FALSE, include |-> Loc("b", 9)],
    u     |-> [name |-> <<"u.h">>,         named |-> TRUE, system |-> FALSE, include |-> Loc("main", 3)],
    v     |-> [name |-> <<"v.inc">>,       named |-> TRUE, system |-> FALSE, include |-> Loc("sys", 1)],
    builtin |-> [name |-> <<"<built-in>">>, named |-> FALSE, system |-> FALSE, include |-> InvalidLoc],
    n     |-> [name |-> <<"n.h">>,         named |-> TRUE, system |-> FALSE, include |-> Loc("main", 4)],
    o     |-> [name |-> <<"o.h">>,         named |-> TRUE, system |-> FALSE, include |-> Loc("n", 30)] ]

getIncludeLoc(f) == IF f = NoFile THEN InvalidLoc ELSE Files[f].include
\* A source manager that takes no header for a system header.
isInNoSystemHeader(l) == FALSE

isInSystemHeader(l) == isValid(l) /\ Files[l.f].system
getNonBuiltinFilenameForID(f) == IF Files[f].named THEN Some(Files[f].name) ELSE None

\* The chain of offsets that leads from the main file to a location.
RECURSIVE IncludeChain(_)
IncludeChain(l) ==
  IF ~isValid(getIncludeLoc(l.f)) THEN <<l.o>>
  ELSE IncludeChain(getIncludeLoc(l.f)) \o <<l.o>>

RECURSIVE LexLess(_, _)
LexLess(s, t) ==
  IF t = <<>> THEN FALSE
  ELSE IF s = <<>> THEN TRUE
  ELSE IF Head(s) # Head(t) THEN Head(s) < Head(t)
  ELSE LexLess(Tail(s), Tail(t))

\* clang::SourceManager::isBeforeInTranslationUnit, for valid locations.
isBeforeInTranslationUnit(a, b) == LexLess(IncludeChain(a), IncludeChain(b))

\* operator< of two SourceLocations: their raw encodings; within one file,
\* their offsets.
RawLess(a, b) == IF a.f = b.f THEN a.o < b.o ELSE isBeforeInTranslationUnit(a, b)

StripDotSlash(name) == IF name # <<>> /\ Head(name) = "./" THEN Tail(name) ELSE name

ConvertSourceLocation(l) ==
  [ filename |-> IF isValid(l) THEN StripDotSlash(Files[l.f].name) ELSE <<>>,
    line     |-> IF isValid(l) THEN (l.o \div LineWidth) + 1 ELSE 0,
    column   |-> IF isValid(l) THEN (l.o % LineWidth) + 1 ELSE 0 ]

(***************************************************************************)
(* Configuration.                                                          *)
(***************************************************************************)
current_target == "//:cur"
headers_to_targets ==
  (<<"a.h">> :> "//:cur") @@ (<<"b.h">> :> "//:other") @@ (<<"m.h">> :> "//:m")
    @@ (<<"n.h">> :> "//:cur") @@ (<<"o.h">> :> "//:other")
public_header_names == << <<"a.h">>, <<"n.h">> >>

(***************************************************************************)
(* The IR's types (ir.h).                                                  *)
(***************************************************************************)
\* DeclId of no declaration.
NoDeclId == "<none>"

MappedTypeSimple(rs_name, cc_name) ==
  [ cc |-> [name |-> cc_name, is_const |-> FALSE, type_params |-> <<>>, decl_id |-> NoDeclId],
    rs |-> [name |-> rs_name, lifetime_args |-> <<>>, nullable |-> FALSE,
            type_params |-> <<>>, decl_id |-> NoDeclId] ]

MappedTypeVoid == MappedTypeSimple("()", "void")

MappedTypeWithDeclIds(rs_name, rs_decl_id, cc_name, cc_decl_id) ==
  [ cc |-> [name |-> cc_name, is_const |-> FALSE, type_params |-> <<>>, decl_id |-> cc_decl_id],
    rs |-> [name |-> rs_name, lifetime_args |-> <<>>, nullable |-> FALSE,
            type_params |-> <<>>, decl_id |-> rs_decl_id] ]

\* A pointer whose target side does not hold the pointee as a type parameter.
MappedTypePointerToUnparameterized(pointee, lifetime, nullable) ==
  [ cc |-> [name |-> "*", is_const |-> FALSE, type_params |-> <<pointee.cc>>,
            decl_id |-> NoDeclId],
    rs |-> [name |-> "*mut", lifetime_args |-> lifetime, nullable |-> nullable,
            type_params |-> <<>>, decl_id |-> NoDeclId] ]

\* lifetime is an optional LifetimeId.
MappedTypePointerTo(pointee, lifetime, nullable) ==
  [ cc |-> [name |-> "*", is_const |-> FALSE, type_params |-> <<pointee.cc>>, decl_id |-> NoDeclId],
    rs |-> [name |-> IF pointee.cc.is_const THEN "*const" ELSE "*mut",
            lifetime_args |-> lifetime, nullable |-> nullable,
            type_params |-> <<pointee.rs>>, decl_id |-> NoDeclId] ]

MappedTypeLValueReferenceTo(pointee, lifetime) ==
  [ cc |-> [name |-> "&", is_const |-> FALSE, type_params |-> <<pointee.cc>>, decl_id |-> NoDeclId],
    rs |-> [name |-> IF pointee.cc.is_const THEN "&" ELSE "&mut",
            lifetime_args |-> lifetime, nullable |-> FALSE,
            type_params |-> <<pointee.rs>>, decl_id |-> NoDeclId] ]

(***************************************************************************)
(* C++ types, as the parser reports them.                                  *)
(*   k         PointerType, LValueReferenceType, BuiltinType, TagType,     *)
(*             TypedefType, or another type class                          *)
(*   spelling  getUnqualifiedType().getAsString()                          *)
(*   inner     the pointee (pointer, reference) or the underlying type     *)
(*             (typedef), as a sequence of at most one type                *)
(*   decl      the declaration a tag or typedef type names                 *)
(*   bk, size, signed   a builtin's kind, width in bits and signedness     *)
(***************************************************************************)
Ty(k, spelling, inner, decl, bk, size, signed) ==
  [ k |-> k, spelling |-> spelling, inner |-> inner, decl |-> decl,
    bk |-> bk, size |-> size, signed |-> signed, const |-> FALSE ]

getAsString(t) == IF t.const THEN "const " \o t.spelling ELSE t.spelling
\* A type that keeps its qualifiers where they are to be removed.
getQualifiedType(t) == t
getUnqualifiedType(t) == [t EXCEPT !.const = FALSE]

BuiltinT(spelling, bk, size, signed) == Ty("builtin", spelling, <<>>, 0, bk, size, signed)
PointerT(t) == Ty("pointer", getAsString(t) \o " *", <<t>>, 0, "", 0, FALSE)
LValueReferenceT(t) == Ty("lvalue_ref", getAsString(t) \o " &", <<t>>, 0, "", 0, FALSE)
RValueReferenceT(t) == Ty("rvalue_ref", getAsString(t) \o " &&", <<t>>, 0, "", 0, FALSE)
TagT(spelling, decl) == Ty("tag", spelling, <<>>, decl, "", 0, FALSE)
TypedefT(spelling, decl, underlying) == Ty("typedef", spelling, <<underlying>>, decl, "", 0, FALSE)
ConstT(t) == [t EXCEPT !.const = TRUE]

VoidT == BuiltinT("void", "Void", 0, FALSE)
BoolT == BuiltinT("bool", "Bool", 8, FALSE)
IntT == BuiltinT("int", "Int", 32, TRUE)
FloatT == BuiltinT("float", "Float", 32, TRUE)

\* Type::getAs<T>() looks through typedefs; Type::getAsAdjusted<T>() does not.
RECURSIVE getAs(_, _)
getAs(t, k) ==
  IF t.k = k THEN Some(t)
  ELSE IF t.k = "typedef" THEN getAs(t.inner[1], k)
  ELSE None

getAsAdjusted(t, k) == IF t.k = k THEN Some(t) ELSE None

isIntegerType(t) == t.bk = "Int"
isSignedInteger(t) == t.bk = "Int" /\ t.signed
\* The size of a type in characters where its size in bits is asked for.
getTypeSizeInChars(t) == t.size \div 8
\* ASTContext::getTypeSize(): the width in bits.
getTypeSize(t) == t.size
\* A table of well-known types without an entry.
kNoWellKnownTypes == [type_string \in {} |-> ""]

(***************************************************************************)
(* The type mapper.                                                        *)
(***************************************************************************)
kWellKnownTypes ==
  ("ptrdiff_t" :> "isize") @@ ("intptr_t" :> "isize") @@
  ("size_t" :> "usize") @@ ("uintptr_t" :> "usize") @@
  ("std::ptrdiff_t" :> "isize") @@ ("std::intptr_t" :> "isize") @@
  ("std::size_t" :> "usize") @@ ("std::uintptr_t" :> "usize") @@
  ("int8_t" :> "i8") @@ ("int16_t" :> "i16") @@
  ("int32_t" :> "i32") @@ ("int64_t" :> "i64") @@
  ("std::int8_t" :> "i8") @@ ("std::int16_t" :> "i16") @@
  ("std::int32_t" :> "i32") @@ ("std::int64_t" :> "i64") @@
  ("uint8_t" :> "u8") @@ ("uint16_t" :> "u16") @@
  ("uint32_t" :> "u32") @@ ("uint64_t" :> "u64") @@
  ("std::uint8_t" :> "u8") @@ ("std::uint16_t" :> "u16") @@
  ("std::uint32_t" :> "u32") @@ ("std::uint64_t" :> "u64") @@
  ("char16_t" :> "u16") @@ ("char32_t" :> "u32") @@ ("wchar_t" :> "i32")

\* std::optional<TypeLifetimes>: has is has_value(), ids the lifetimes.
NoLifetimes == [has |-> FALSE, ids |-> <<>>]
Lifetimes(ids) == [has |-> TRUE, ids |-> ids]

\* The first element of a vector where its last is asked for.
front(v) == v[1]
\* std::vector::back() and the vector after pop_back().
back(v) == v[Len(v)]
pop_back(v) == SubSeq(v, 1, Len(v) - 1)

\* A default that makes pointers nullable.
kNullableByDefault == TRUE

\* The nullable argument of a ConvertType call that does not pass it.
kDefaultNullable == FALSE

\* A failed absl::StatusOr<MappedType>; check_failed: a CHECK aborted.
TypeError(type_string) ==
  [ ok |-> FALSE, check_failed |-> FALSE,
    error |-> "UNIMPLEMENTED: Unsupported type '" \o type_string \o "'",
    type |-> MappedTypeVoid ]
TypeCheckFailed ==
  [ok |-> FALSE, check_failed |-> TRUE, error |-> "CHECK failed", type |-> MappedTypeVoid]
TypeOk(type, qual_type) ==
  [ ok |-> TRUE, check_failed |-> FALSE, error |-> "",
    type |-> [type EXCEPT !.cc.is_const = qual_type.const] ]

(***************************************************************************)
(* The fixture: the declarations the parser may report, in translation-unit *)
(* order.  A declaration is named by its key; entity names the entity that *)
(* its redeclarations share.                                               *)
(*                                                                         *)
(*   // a.h                        (public header of the current target)   *)
(*   // top                                 comment "top"                  *)
(*   void A0();  void A0();                                                *)
(*   void Foo(), Bar();                                                    *)
(*   struct P { int x; } MakeP();                                          *)
(*   struct S;  struct S { S* next; };                                     *)
(*   #include "b.h"                (header of another target)              *)
(*       // in b                            comment "in b"                 *)
(*       struct BS { int x; };  typedef int BT;  void BF(int&&);           *)
(*       struct BBad { int&& r; };                                         *)
(*   /// doc of F                           comment "doc of F"             *)
(*   void F();                                                             *)
(*   struct N { N(N&&); ~N(); /* in N */ int field; };                     *)
(*   void TakesByValue(N n);  typedef N NT;  void TakesAlias(NT n);        *)
(*   void Gone(N n) = delete;                                              *)
(*   class C { void priv(int&& x); public: void pub(); };                  *)
(*   struct Bad { Bad* self; int&& r; };                                   *)
(*   struct [[clang::trivial_abi]] T { T(const T&) {} };                   *)
(*   struct U { U(const U&) {} };                                          *)
(*   namespace ns { void InNs(); }                                         *)
(*   // tail                                comment "tail"                 *)
(***************************************************************************)
\* A special member function, as the parser reports it.
Member(user_declared, deleted, defaulted, trivial, access) ==
  [ user_declared |-> user_declared, deleted |-> deleted, defaulted |-> defaulted,
    trivial |-> trivial, access |-> access ]
ImplicitTrivial(access) == Member(FALSE, FALSE, FALSE, TRUE, access)
UserProvided(access) == Member(TRUE, FALSE, FALSE, FALSE, access)
Suppressed(access) == Member(FALSE, TRUE, FALSE, FALSE, access)

Param(type, name, begin, index) ==
  [type |-> type, name |-> name, name_kind |-> "Identifier", begin |-> begin, index |-> index]
FieldDecl(type, name, access, begin, offset) ==
  [ type |-> type, name |-> name, name_kind |-> "Identifier", access |-> access,
    begin |-> begin, offset |-> offset, doc |-> "" ]

NoDecl ==
  [ key |-> "", entity |-> "", kind |-> "", decl_context |-> "tu", parent |-> "",
    name |-> "", name_kind |-> "Identifier", qname |-> "",
    loc |-> InvalidLoc, begin |-> InvalidLoc, end |-> InvalidLoc, doc |-> "",
    requires |-> {},
    \* FunctionDecl
    fkind |-> "function", ctor |-> "", deleted |-> FALSE, instance |-> FALSE,
    access |-> "none", inlined |-> FALSE, params |-> <<>>, ret |-> VoidT,
    ret_begin |-> InvalidLoc, mangled |-> "", lifetimes |-> None,
    ref_qualifier |-> "RQ_None", const_method |-> FALSE, virtual |-> FALSE,
    \* RecordDecl
    union |-> FALSE, def |-> "", invalid |-> FALSE, complete |-> TRUE, cxx |-> TRUE,
    template |-> FALSE, class |-> FALSE, final |-> FALSE, trivial_abi |-> FALSE,
    fields |-> <<>>, size |-> 0, alignment |-> 0,
    copy |-> ImplicitTrivial("public"), move |-> ImplicitTrivial("public"),
    dtor |-> ImplicitTrivial("public"),
    \* TypedefNameDecl
    underlying |-> VoidT ]

\* A function `ret name(params)` of file f from offset b to e, named at offset l.
FunctionDecl(key, name, f, b, l, e, params, ret, requires) ==
  [ NoDecl EXCEPT !.key = key, !.entity = name, !.kind = "function", !.name = name,
      !.qname = name, !.loc = Loc(f, l), !.begin = Loc(f, b), !.end = Loc(f, e),
      !.params = params, !.ret = ret, !.ret_begin = Loc(f, b),
      !.mangled = "_Z" \o name, !.requires = requires ]

\* A member function of the record `parent`.
MethodDecl(key, name, parent, f, b, l, e, access, params, ret) ==
  [ FunctionDecl(key, name, f, b, l, e, params, ret, {parent}) EXCEPT
      !.entity = parent \o "::" \o name, !.qname = parent \o "::" \o name,
      !.decl_context = "record", !.parent = parent, !.fkind = "method",
      !.instance = TRUE, !.access = access ]

\* A struct's or class's definition (def = key) or forward declaration.
RecordDecl(key, name, def, f, b, e, fields, requires) ==
  [ NoDecl EXCEPT !.key = key, !.entity = name, !.kind = "record", !.name = name,
      !.qname = name, !.def = def, !.loc = Loc(f, b + 1), !.begin = Loc(f, b),
      !.end = Loc(f, e), !.fields = fields, !.size = 4 * Len(fields),
      !.alignment = 4, !.requires = requires ]

TypedefDecl(key, name, f, b, e, underlying, requires) ==
  [ NoDecl EXCEPT !.key = key, !.entity = name, !.kind = "typedef", !.name = name,
      !.qname = name, !.loc = Loc(f, e), !.begin = Loc(f, b), !.end = Loc(f, e),
      !.underlying = underlying, !.requires = requires ]

NamespaceDecl(key, name, f, b, e) ==
  [ NoDecl EXCEPT !.key = key, !.entity = name, !.kind = "namespace", !.name = name,
      !.qname = name, !.loc = Loc(f, b + 1), !.begin = Loc(f, b), !.end = Loc(f, e) ]

Decls ==
  << FunctionDecl("A0", "A0", "a", 2, 3, 3, <<>>, VoidT, {}),
     FunctionDecl("A0'", "A0", "a", 4, 5, 5, <<>>, VoidT, {}),
     FunctionDecl("Foo", "Foo", "a", 6, 7, 7, <<>>, VoidT, {}),
     FunctionDecl("Bar", "Bar", "a", 6, 8, 8, <<>>, VoidT, {}),
     RecordDecl("P", "P", "P", "a", 10, 13,
                <<FieldDecl(IntT, "x", "none", Loc("a", 12), 0)>>, {}),
     FunctionDecl("MakeP", "MakeP", "a", 10, 14, 15, <<>>, TagT("P", "P"), {"P"}),
     RecordDecl("S;", "S", "S", "a", 16, 17, <<>>, {}),
     RecordDecl("S", "S", "S", "a", 18, 24,
                <<FieldDecl(PointerT(TagT("S", "S")), "next", "none", Loc("a", 21), 0)>>, {}),
     \* int* Short(int** p), annotated with one lifetime for p.
     [ FunctionDecl("Short", "Short", "a", 26, 27, 29,
                    <<Param(PointerT(PointerT(IntT)), "p", Loc("a", 28), 0)>>,
                    PointerT(IntT), {}) EXCEPT
         !.lifetimes = Some([ this_lifetimes |-> <<>>, param_lifetimes |-> << <<1>> >>,
                              return_lifetimes |-> <<1>> ]) ],
     RecordDecl("BS", "BS", "BS", "b", 2, 5,
                <<FieldDecl(IntT, "x", "none", Loc("b", 3), 0)>>, {}),
     TypedefDecl("BT", "BT", "b", 6, 7, IntT, {}),
     FunctionDecl("BF", "BF", "b", 8, 9, 11,
                  <<Param(RValueReferenceT(IntT), "", Loc("b", 10), 0)>>, VoidT, {}),
     RecordDecl("BBad", "BBad", "BBad", "b", 12, 15,
                <<FieldDecl(RValueReferenceT(IntT), "r", "none", Loc("b", 13), 0)>>, {}),
     [ FunctionDecl("F", "F", "a", 42, 43, 44, <<>>, VoidT, {}) EXCEPT !.doc = "doc of F" ],
     [ RecordDecl("N", "N", "N", "a", 50, 59,
                  <<FieldDecl(IntT, "field", "none", Loc("a", 57), 0)>>, {}) EXCEPT
         !.copy = Suppressed("public"), !.move = UserProvided("public"),
         !.dtor = UserProvided("public") ],
     FunctionDecl("TakesByValue", "TakesByValue", "a", 60, 61, 63,
                  <<Param(TagT("N", "N"), "n", Loc("a", 62), 0)>>, VoidT, {"N"}),
     TypedefDecl("NT", "NT", "a", 64, 65, TagT("N", "N"), {"N"}),
     FunctionDecl("TakesAlias", "TakesAlias", "a", 66, 67, 69,
                  <<Param(TypedefT("NT", "NT", TagT("N", "N")), "n", Loc("a", 68), 0)>>,
                  VoidT, {"N", "NT"}),
     [ FunctionDecl("Gone", "Gone", "a", 70, 71, 73,
                    <<Param(TagT("N", "N"), "n", Loc("a", 72), 0)>>, VoidT, {"N"})
         EXCEPT !.deleted = TRUE ],
     [ RecordDecl("C", "C", "C", "a", 74, 79, <<>>, {}) EXCEPT
         !.class = TRUE, !.size = 1, !.alignment = 1,
         !.copy = ImplicitTrivial("public"), !.move = ImplicitTrivial("public"),
         !.dtor = ImplicitTrivial("public") ],
     MethodDecl("C::priv", "priv", "C", "a", 75, 76, 77, "private",
                <<Param(RValueReferenceT(IntT), "x", Loc("a", 76), 0)>>, VoidT),
     MethodDecl("C::pub", "pub", "C", "a", 78, 78, 79, "public", <<>>, VoidT),
     RecordDecl("Bad", "Bad", "Bad", "a", 80, 85,
                << FieldDecl(PointerT(TagT("Bad", "Bad")), "self", "none", Loc("a", 81), 0),
                   FieldDecl(RValueReferenceT(IntT), "r", "none", Loc("a", 83), 64) >>, {}),
     [ RecordDecl("T", "T", "T", "a", 86, 89, <<>>, {}) EXCEPT
         !.trivial_abi = TRUE, !.size = 1, !.alignment = 1,
         !.copy = UserProvided("public"), !.move = Suppressed("public") ],
     [ RecordDecl("U", "U", "U", "a", 90, 93, <<>>, {}) EXCEPT
         !.size = 1, !.alignment = 1,
         !.copy = UserProvided("public"), !.move = Suppressed("public") ],
     NamespaceDecl("ns", "ns", "a", 96, 105),
     [ FunctionDecl("ns::InNs", "InNs", "a", 98, 99, 100, <<>>, VoidT, {"ns"}) EXCEPT
         !.entity = "ns::InNs", !.qname = "ns::InNs", !.decl_context = "namespace",
         !.parent = "ns" ],
     FunctionDecl("UseBad", "UseBad", "a", 106, 107, 109,
                  <<Param(PointerT(TagT("Bad", "Bad")), "b", Loc("a", 108), 0)>>,
                  VoidT, {"Bad"}) >>

Keys == {Decls[i].key : i \in DOMAIN Decls}

\* ctx_: the ASTContext of the translation unit being traversed.  It holds
\* the declarations the parser can produce, in source order; the visitor only
\* reads it.
VARIABLE ctx

Idx(key) == CHOOSE i \in DOMAIN ctx : ctx[i].key = key
D(key) == ctx[Idx(key)]

\* The raw comments of the files: where each begins and its formatted text
\* (RawComment::getFormattedText).
Comments ==
  << [text |-> "top",      begin |-> Loc("a", 0)],
     [text |-> "in b",     begin |-> Loc("b", 1)],
     [text |-> "doc of F", begin |-> Loc("a", 40)],
     [text |-> "in N",     begin |-> Loc("a", 55)],
     [text |-> "tail",     begin |-> Loc("a", 110)] >>

(***************************************************************************)
(* Canonical declarations, names and owning targets.                       *)
(***************************************************************************)
\* Decl::getCanonicalDecl(): the first declaration of the entity in the
\* translation unit; present holds the declarations parsed so far.
getCanonicalDecl(key, present) ==
  ctx[Min({Idx(k) : k \in {p \in present \cup {key} : D(p).entity = D(key).entity}})].key

GenerateDeclId(key, present) == getCanonicalDecl(key, present)

RECURSIVE OwningTargetFrom(_)
OwningTargetFrom(source_location) ==
  IF ~(isValid(source_location) /\ ~isInSystemHeader(source_location))
  THEN "//:virtual_clang_resource_dir_target"
  ELSE LET id == getFileID(source_location)
           filename == getNonBuiltinFilenameForID(id)
       IN  IF filename = None THEN "//:builtin"
           ELSE IF StripDotSlash(filename[1]) \in DOMAIN headers_to_targets
           THEN headers_to_targets[StripDotSlash(filename[1])]
           ELSE OwningTargetFrom(getIncludeLoc(id))

GetOwningTarget(decl) == OwningTargetFrom(decl.loc)

\* A target test that takes every declaration for one of the current target.
IsFromAnyTarget(decl) == TRUE

IsFromCurrentTarget(decl) == current_target = GetOwningTarget(decl)

\* named_decl: a declaration, a parameter or a field.
GetTranslatedName(named_decl, is_param) ==
  CASE named_decl.name_kind = "Identifier" ->
         IF named_decl.name = ""
         THEN IF is_param
              THEN Some([kind |-> "Identifier",
                         ident |-> "__param_" \o ToString(named_decl.index)])
              ELSE None
         ELSE Some([kind |-> "Identifier", ident |-> named_decl.name])
    [] named_decl.name_kind = "CXXConstructorName" ->
         Some([kind |-> "Constructor", ident |-> ""])
    [] named_decl.name_kind = "CXXDestructorName" ->
         Some([kind |-> "Destructor", ident |-> ""])
    [] OTHER -> None

GetTranslatedIdentifier(named_decl, is_param) ==
  LET name == GetTranslatedName(named_decl, is_param)
  IN  IF name # None /\ name[1].kind = "Identifier" THEN Some(name[1].ident) ELSE None

GetMangledName(named_decl) ==
  CASE named_decl.fkind = "destructor"  -> named_decl.mangled \o "D1"
    [] named_decl.fkind = "constructor" -> named_decl.mangled \o "C1"
    [] OTHER -> named_decl.mangled

\* ASTContext::getRawCommentForDeclNoCache and AstVisitor::GetComment.
getRawCommentForDeclNoCache(decl) == decl.doc
GetComment(decl) ==
  IF getRawCommentForDeclNoCache(decl) = "" THEN None
  ELSE Some(getRawCommentForDeclNoCache(decl))

(***************************************************************************)
(* AstVisitor::ConvertType.  known is known_type_decls_.                   *)
(***************************************************************************)
RECURSIVE ConvertType(_, _, _, _, _)
ConvertType(qual_type, lifetimes, nullable, known, present) ==
  LET type_string == getAsString(getUnqualifiedType(qual_type))
      pointer_type == getAs(qual_type, "pointer")
      lvalue_ref_type == getAs(qual_type, "lvalue_ref")
      builtin_type == getAsAdjusted(qual_type, "builtin")
      tag_type == getAsAdjusted(qual_type, "tag")
      typedef_type == getAsAdjusted(qual_type, "typedef")
      \* the lifetime of a pointer or reference layer, and what is left
      lifetime == IF lifetimes.has THEN Some(back(lifetimes.ids)) ELSE None
      rest == IF lifetimes.has THEN Lifetimes(pop_back(lifetimes.ids)) ELSE lifetimes
      Layer(layer, Wrap(_, _)) ==
        IF lifetimes.has /\ lifetimes.ids = <<>> THEN TypeCheckFailed
        ELSE LET pointee_type ==
                   ConvertType(layer.inner[1], rest, kDefaultNullable, known, present)
             IN  IF pointee_type.ok THEN TypeOk(Wrap(pointee_type.type, lifetime), qual_type)
                 ELSE IF pointee_type.check_failed THEN TypeCheckFailed
                 ELSE TypeError(type_string)
      PointerTo(pointee, l) == MappedTypePointerTo(pointee, l, nullable)
      Named(decl) ==
        IF decl \in known /\ GetTranslatedIdentifier(D(decl), FALSE) # None
        THEN LET ident == GetTranslatedIdentifier(D(decl), FALSE)[1]
                 decl_id == GenerateDeclId(decl, present)
             IN  TypeOk(MappedTypeWithDeclIds(ident, decl_id, ident, decl_id), qual_type)
        ELSE TypeError(type_string)
  IN  IF type_string \in DOMAIN kWellKnownTypes
      THEN TypeOk(MappedTypeSimple(kWellKnownTypes[type_string], type_string), qual_type)
      ELSE IF pointer_type # None THEN Layer(pointer_type[1], PointerTo)
      ELSE IF lvalue_ref_type # None THEN Layer(lvalue_ref_type[1], MappedTypeLValueReferenceTo)
      ELSE IF builtin_type # None
      THEN CASE builtin_type[1].bk = "Bool" -> TypeOk(MappedTypeSimple("bool", "bool"), qual_type)
             [] builtin_type[1].bk = "Float" -> TypeOk(MappedTypeSimple("f32", "float"), qual_type)
             [] builtin_type[1].bk = "Double" -> TypeOk(MappedTypeSimple("f64", "double"), qual_type)
             [] builtin_type[1].bk = "Void" -> TypeOk(MappedTypeVoid, qual_type)
             [] OTHER ->
                  IF isIntegerType(builtin_type[1])
                       /\ getTypeSize(builtin_type[1]) \in {8, 16, 32, 64}
                  THEN TypeOk(MappedTypeSimple(
                                (IF isSignedInteger(builtin_type[1]) THEN "i" ELSE "u")
                                  \o ToString(getTypeSize(builtin_type[1])),
                                type_string), qual_type)
                  ELSE TypeError(type_string)
      ELSE IF tag_type # None THEN Named(tag_type[1].decl)
      ELSE IF typedef_type # None THEN Named(typedef_type[1].decl)
      ELSE TypeError(type_string)

(***************************************************************************)
(* Parser services on records, and the special-member classifier           *)
(* (ast_convert.h).                                                        *)
(***************************************************************************)
\* RecordDecl::getDefinition(): the definition, when the translation unit
\* holds one (a forward declaration is only parsed together with it).
getDefinition(record_decl) == record_decl.def

TranslateAccessSpecifier(access) ==
  CASE access = "public" -> "kPublic"
    [] access = "protected" -> "kProtected"
    [] access = "private" -> "kPrivate"
    [] OTHER -> "kPrivate"

\* A classifier that takes no special member function for deleted.
GetSpecialMemberFuncNeverDeleted(member) ==
  [ definition |-> IF (~member.user_declared \/ member.defaulted) /\ member.trivial
                   THEN "trivial"
                   ELSE "nontrivial",
    access |-> TranslateAccessSpecifier(member.access) ]

GetSpecialMemberFunc(member) ==
  [ definition |-> IF member.deleted THEN "deleted"
                   ELSE IF (~member.user_declared \/ member.defaulted) /\ member.trivial
                   THEN "trivial"
                   ELSE "nontrivial",
    access |-> TranslateAccessSpecifier(member.access) ]

\* RecordDecl::canPassInRegisters(): the record has the trivial_abi attribute,
\* or no copy/move constructor or destructor of it is user-provided and they
\* are not all deleted.
canPassInRegisters(record_decl) ==
  \/ record_decl.trivial_abi
  \/ /\ \A m \in {record_decl.copy, record_decl.move, record_decl.dtor} :
          m.deleted \/ m.trivial
     /\ ~record_decl.dtor.deleted
     /\ ~(record_decl.copy.deleted /\ record_decl.move.deleted)

(***************************************************************************)
(* IR items.                                                               *)
(***************************************************************************)
UnsupportedItem(name, message, source_loc) ==
  [kind |-> "UnsupportedItem", name |-> name, message |-> message, source_loc |-> source_loc]

Comment(text) == [kind |-> "Comment", text |-> text]

\* A PushUnsupportedItem that records the declaration's begin location,
\* whatever location it is given.
PushUnsupportedItemAtDecl(decl, message, source_location) ==
  IF ~IsFromCurrentTarget(decl) THEN <<>>
  ELSE <<UnsupportedItem(decl.qname, message, ConvertSourceLocation(decl.begin))>>

\* AstVisitor::PushUnsupportedItem: what is appended to
\* seen_decls_[decl->getCanonicalDecl()].
PushUnsupportedItem(decl, message, source_location) ==
  IF ~IsFromCurrentTarget(decl) THEN <<>>
  ELSE <<UnsupportedItem(decl.qname, message, ConvertSourceLocation(source_location))>>

(***************************************************************************)
(* AstVisitor::VisitFunctionDecl.  The result: the items the call appends  *)
(* to seen_decls_[function_decl->getCanonicalDecl()], in order, and        *)
(* whether a CHECK failed.                                                 *)
(***************************************************************************)
\* devtools_rust::GetLifetimeAnnotations: an optional FunctionLifetimes
\* [this_lifetimes, param_lifetimes, return_lifetimes].
GetLifetimeAnnotations(function_decl) == function_decl.lifetimes

\* A test that takes no function for a member function.
IsNoCXXMethodDecl(function_decl) == FALSE

IsCXXMethodDecl(function_decl) == function_decl.fkind \in {"method", "constructor", "destructor"}

\* CXXMethodDecl::getThisType(): a pointer to the method's class.
getThisType(method_decl) ==
  PointerT(IF method_decl.const_method
           THEN ConstT(TagT(D(method_decl.parent).name, method_decl.parent))
           ELSE TagT(D(method_decl.parent).name, method_decl.parent))

\* llvm::dyn_cast<clang::RecordType>(type) followed by the record's
\* canPassInRegisters(): the type node itself is a record type (a typedef of
\* a record is a TypedefType) and the record cannot be passed in registers.
IsRecordNotPassableInRegisters(type) ==
  type.k = "tag" /\ D(type.decl).kind = "record" /\ ~canPassInRegisters(D(type.decl))

\* One parameter of the loop over the parameters: the conversion of its
\* type, the unsupported items pushed and the FuncParam appended.
VisitParam(function_decl, i, lifetimes, known, present) ==
  LET param == function_decl.params[i]
      param_lifetimes == IF lifetimes # None
                         THEN Lifetimes(lifetimes[1].param_lifetimes[i])
                         ELSE NoLifetimes
      param_type == ConvertType(param.type, param_lifetimes, kDefaultNullable, known, present)
      param_name == GetTranslatedIdentifier(param, TRUE)
  IN  IF ~param_type.ok
      THEN [ check_failed |-> param_type.check_failed,
             failed |-> TRUE,
             unsupported |-> PushUnsupportedItem(function_decl,
                 "Parameter type '" \o getAsString(param.type) \o "' is not supported",
                 param.begin),
             params |-> <<>> ]
      ELSE [ check_failed |-> param_name = None,
             failed |-> IsRecordNotPassableInRegisters(param.type),
             unsupported |->
               IF IsRecordNotPassableInRegisters(param.type)
               THEN PushUnsupportedItem(function_decl,
                      "Non-trivial_abi type '" \o getAsString(param.type)
                        \o "' is not supported by value as a parameter",
                      param.begin)
               ELSE <<>>,
             params |-> IF param_name = None THEN <<>>
                        ELSE <<[type |-> param_type.type, identifier |-> param_name[1]]>> ]

\* The lifetimes of a function, sorted by name (a lifetime's name is its id's
\* numeral, and the ids are below ten).
RECURSIVE SortedLifetimes(_)
SortedLifetimes(all_lifetimes) ==
  IF all_lifetimes = {} THEN <<>>
  ELSE LET l == Min(all_lifetimes)
       IN  <<[name |-> ToString(l), id |-> l]>> \o SortedLifetimes(all_lifetimes \ {l})

VisitFunctionDecl(function_decl, known, present) ==
  LET lifetimes == GetLifetimeAnnotations(function_decl)
      is_method == IsCXXMethodDecl(function_decl)
      has_this == is_method /\ function_decl.instance
      this_lifetimes == IF lifetimes # None THEN Lifetimes(lifetimes[1].this_lifetimes)
                        ELSE NoLifetimes
      this_type == ConvertType(getThisType(function_decl), this_lifetimes, FALSE,
                               known, present)
      this_unsupported ==
        IF has_this /\ ~this_type.ok
        THEN PushUnsupportedItem(function_decl, this_type.error, function_decl.begin)
        ELSE <<>>
      this_params ==
        IF has_this /\ this_type.ok
        THEN <<[type |-> this_type.type, identifier |-> "__this"]>>
        ELSE <<>>
      n == Len(function_decl.params)
      visited == [i \in 1..n |-> VisitParam(function_decl, i, lifetimes, known, present)]
      return_by_value_unsupported ==
        IF IsRecordNotPassableInRegisters(function_decl.ret)
        THEN PushUnsupportedItem(function_decl,
               "Non-trivial_abi type '" \o getAsString(function_decl.ret)
                 \o "' is not supported by value as a return type",
               function_decl.ret_begin)
        ELSE <<>>
      return_lifetimes == IF lifetimes # None THEN Lifetimes(lifetimes[1].return_lifetimes)
                          ELSE NoLifetimes
      return_type == ConvertType(function_decl.ret, return_lifetimes, kDefaultNullable,
                                 known, present)
      return_unsupported ==
        IF ~return_type.ok
        THEN PushUnsupportedItem(function_decl,
               "Return type '" \o getAsString(function_decl.ret) \o "' is not supported",
               function_decl.ret_begin)
        ELSE <<>>
      unsupported == this_unsupported \o Concat([i \in 1..n |-> visited[i].unsupported])
                       \o return_by_value_unsupported \o return_unsupported
      success == /\ ~(has_this /\ ~this_type.ok)
                 /\ \A i \in 1..n : ~visited[i].failed
                 /\ ~IsRecordNotPassableInRegisters(function_decl.ret)
                 /\ return_type.ok
      all_lifetimes ==
        IF lifetimes = None THEN {}
        ELSE (IF has_this THEN Range(lifetimes[1].this_lifetimes) ELSE {})
               \cup UNION {Range(lifetimes[1].param_lifetimes[i]) : i \in 1..n}
               \cup Range(lifetimes[1].return_lifetimes)
      check_failed ==
        \/ has_this /\ this_type.check_failed
        \/ lifetimes # None /\ Len(lifetimes[1].param_lifetimes) # n
        \/ \E i \in 1..n : visited[i].check_failed
        \/ return_type.check_failed
      instance_metadata ==
        IF function_decl.instance
        THEN Some([ reference |-> CASE function_decl.ref_qualifier = "RQ_LValue" -> "kLValue"
                                    [] function_decl.ref_qualifier = "RQ_RValue" -> "kRValue"
                                    [] OTHER -> "kUnqualified",
                    is_const |-> function_decl.const_method,
                    is_virtual |-> function_decl.virtual ])
        ELSE None
      member_func_metadata ==
        IF is_method
        THEN Some([ record_id |-> GenerateDeclId(function_decl.parent, present),
                    instance_method_metadata |-> instance_metadata ])
        ELSE None
      translated_name == GetTranslatedName(function_decl, FALSE)
      func ==
        [ kind |-> "Func",
          name |-> translated_name[1],
          owning_target |-> GetOwningTarget(function_decl),
          doc_comment |-> GetComment(function_decl),
          mangled_name |-> GetMangledName(function_decl),
          return_type |-> return_type.type,
          params |-> this_params \o Concat([i \in 1..n |-> visited[i].params]),
          lifetime_params |-> SortedLifetimes(all_lifetimes),
          is_inline |-> function_decl.inlined,
          member_func_metadata |-> member_func_metadata,
          source_loc |-> ConvertSourceLocation(function_decl.begin) ]
  IN  IF ~IsFromCurrentTarget(function_decl) \/ function_decl.deleted
      THEN [items |-> <<>>, check_failed |-> FALSE]
      ELSE IF check_failed
      THEN [items |-> <<>>, check_failed |-> TRUE]
      ELSE IF is_method /\ function_decl.access # "public"
      THEN [items |-> unsupported, check_failed |-> FALSE]
      ELSE IF success /\ translated_name # None
      THEN [items |-> unsupported \o <<func>>, check_failed |-> FALSE]
      ELSE [items |-> unsupported, check_failed |-> FALSE]

(***************************************************************************)
(* AstVisitor::ImportFields and AstVisitor::VisitRecordDecl.               *)
(***************************************************************************)
\* The fields from the i-th on.  ok: no field failed; unsupported: the item
\* pushed for the field that failed.
RECURSIVE ImportFieldsFrom(_, _, _, _, _)
ImportFieldsFrom(record_decl, i, default_access, known, present) ==
  IF i > Len(record_decl.fields) THEN [ok |-> TRUE, fields |-> <<>>, unsupported |-> <<>>]
  ELSE
    LET field_decl == record_decl.fields[i]
        type == ConvertType(field_decl.type, NoLifetimes, kDefaultNullable, known, present)
        access == IF field_decl.access = "none" THEN default_access ELSE field_decl.access
        field_name == GetTranslatedIdentifier(field_decl, FALSE)
        rest == ImportFieldsFrom(record_decl, i + 1, default_access, known, present)
    IN  IF ~type.ok
        THEN [ ok |-> FALSE, fields |-> <<>>,
               unsupported |-> PushUnsupportedItem(record_decl,
                   "Field type '" \o getAsString(field_decl.type) \o "' is not supported",
                   field_decl.begin) ]
        ELSE IF field_name = None
        THEN [ ok |-> FALSE, fields |-> <<>>,
               unsupported |-> PushUnsupportedItem(record_decl,
                   "Cannot translate name for field '" \o field_decl.name \o "'",
                   field_decl.begin) ]
        ELSE IF ~rest.ok THEN rest
        ELSE [ ok |-> TRUE,
               fields |-> << [ identifier |-> field_name[1],
                               doc_comment |-> GetComment(field_decl),
                               type |-> type.type,
                               access |-> TranslateAccessSpecifier(access),
                               offset |-> field_decl.offset ] >> \o rest.fields,
               unsupported |-> <<>> ]

\* An import of the fields that takes public for the default access.
ImportFieldsOfStruct(record_decl, default_access, known, present) ==
  ImportFieldsFrom(record_decl, 1, "public", known, present)

ImportFields(record_decl, default_access, known, present) ==
  ImportFieldsFrom(record_decl, 1, default_access, known, present)

\* An insert that leaves the set as it is.
insertNothing(known, record_decl) == known

\* absl::flat_hash_set::insert and ::erase on known_type_decls_.
insert(known, record_decl) == known \cup {record_decl.key}

\* An erase that leaves the set as it is.
eraseNothing(known, record_decl) == known

erase(known, record_decl) == known \ {record_decl.key}

\* A Record whose is_trivial_abi follows the copy constructor's definition.
RecordWithAbiOfCopyConstructor(record_decl, record_name, fields, is_final, present) ==
  [ kind |-> "Record",
    identifier |-> record_name,
    id |-> GenerateDeclId(record_decl.key, present),
    owning_target |-> GetOwningTarget(record_decl),
    doc_comment |-> GetComment(record_decl),
    fields |-> fields,
    size |-> record_decl.size,
    alignment |-> record_decl.alignment,
    copy_constructor |-> GetSpecialMemberFunc(record_decl.copy),
    move_constructor |-> GetSpecialMemberFunc(record_decl.move),
    destructor |-> GetSpecialMemberFunc(record_decl.dtor),
    is_trivial_abi |-> GetSpecialMemberFunc(record_decl.copy).definition = "trivial",
    is_final |-> is_final ]

\* The Record pushed for a record whose fields were imported.
Record(record_decl, record_name, fields, is_final, present) ==
  [ kind |-> "Record",
    identifier |-> record_name,
    id |-> GenerateDeclId(record_decl.key, present),
    owning_target |-> GetOwningTarget(record_decl),
    doc_comment |-> GetComment(record_decl),
    fields |-> fields,
    size |-> record_decl.size,
    alignment |-> record_decl.alignment,
    copy_constructor |-> GetSpecialMemberFunc(record_decl.copy),
    move_constructor |-> GetSpecialMemberFunc(record_decl.move),
    destructor |-> GetSpecialMemberFunc(record_decl.dtor),
    is_trivial_abi |-> canPassInRegisters(record_decl),
    is_final |-> is_final ]

\* The result: the items appended to seen_decls_[canonical declaration] and
\* known_type_decls_ after the call.
VisitRecordDecl(visited_decl, known, present) ==
  LET nothing == [items |-> <<>>, known |-> known]
      record_decl == D(getDefinition(visited_decl))
      default_access == IF record_decl.cxx /\ record_decl.class THEN "private" ELSE "public"
      is_final == IF record_decl.cxx THEN record_decl.final ELSE TRUE
      record_name == GetTranslatedIdentifier(record_decl, FALSE)
      provisional == insert(known, record_decl)
      fields == ImportFields(record_decl, default_access, provisional, present)
  IN  IF visited_decl.decl_context = "function" THEN nothing
      ELSE IF visited_decl.decl_context = "record"
      THEN [ items |-> PushUnsupportedItem(visited_decl,
                         "Nested classes are not supported yet", visited_decl.begin),
             known |-> known ]
      ELSE IF visited_decl.union
      THEN [ items |-> PushUnsupportedItem(visited_decl,
                         "Unions are not supported yet", visited_decl.begin),
             known |-> known ]
      ELSE IF getDefinition(visited_decl) = "" \/ record_decl.invalid \/ ~record_decl.complete
      THEN nothing
      ELSE IF record_decl.cxx /\ record_decl.template
      THEN [ items |-> PushUnsupportedItem(record_decl,
                         "Class templates are not supported yet", record_decl.begin),
             known |-> known ]
      ELSE IF record_name = None THEN nothing
      ELSE IF ~fields.ok
      THEN [items |-> fields.unsupported, known |-> erase(provisional, record_decl)]
      ELSE [ items |-> <<Record(record_decl, record_name[1], fields.fields, is_final, present)>>,
             known |-> provisional ]

(***************************************************************************)
(* AstVisitor::VisitTypedefNameDecl.                                       *)
(***************************************************************************)
VisitTypedefNameDecl(typedef_name_decl, known, present) ==
  LET identifier == GetTranslatedIdentifier(typedef_name_decl, FALSE)
      underlying_type == ConvertType(typedef_name_decl.underlying, NoLifetimes,
                                     kDefaultNullable, known, present)
      type_alias ==
        [ kind |-> "TypeAlias",
          identifier |-> identifier[1],
          id |-> GenerateDeclId(typedef_name_decl.key, present),
          owning_target |-> GetOwningTarget(typedef_name_decl),
          underlying_type |-> underlying_type.type ]
  IN  IF typedef_name_decl.decl_context = "function"
      THEN [items |-> <<>>, known |-> known, check_failed |-> FALSE]
      ELSE IF typedef_name_decl.decl_context = "record"
      THEN [ items |-> PushUnsupportedItem(typedef_name_decl,
                         "Typedefs nested in classes are not supported yet",
                         typedef_name_decl.begin),
             known |-> known, check_failed |-> FALSE ]
      ELSE IF typedef_name_decl.qname \in DOMAIN kWellKnownTypes
      THEN [items |-> <<>>, known |-> known, check_failed |-> FALSE]
      ELSE IF identifier = None
      THEN [items |-> <<>>, known |-> known, check_failed |-> TRUE]
      ELSE IF underlying_type.ok
      THEN [ items |-> <<type_alias>>, known |-> known \cup {typedef_name_decl.key},
             check_failed |-> FALSE ]
      ELSE [ items |-> PushUnsupportedItem(typedef_name_decl, underlying_type.error,
                                           typedef_name_decl.begin),
             known |-> known, check_failed |-> underlying_type.check_failed ]

(***************************************************************************)
(* AstVisitor::CommentManager.  A raw comment is named by its text; cm is  *)
(* [current_file, file_comments, next_comment, comments]: next_comment is  *)
(* an index into file_comments (Len + 1: the end iterator), comments the   *)
(* top-level comments visited so far.                                      *)
(***************************************************************************)
CommentBegin(text) ==
  (CHOOSE c \in Range(Comments) : c.text = text).begin

\* RawCommentList::getCommentsInFile: the file's comments by offset.
getCommentsInFile(file) ==
  LET in_file == SelectSeq(Comments, LAMBDA c : c.begin.f = file)
  IN  [i \in DOMAIN in_file |-> in_file[i].text]

VisitTopLevelComment(cm, comment) == [cm EXCEPT !.comments = Append(@, comment)]

RECURSIVE FlushLoop(_)
FlushLoop(cm) ==
  IF cm.next_comment > Len(cm.file_comments) THEN cm
  ELSE FlushLoop([ VisitTopLevelComment(cm, cm.file_comments[cm.next_comment])
                     EXCEPT !.next_comment = @ + 1 ])

\* A flush that visits the comments of every file, loaded or not.
FlushCommentsOfEveryFile(cm) ==
  [ cm EXCEPT !.comments = @ \o [i \in DOMAIN Comments |-> Comments[i].text],
              !.file_comments = <<>>, !.next_comment = 1 ]

FlushComments(cm) ==
  [FlushLoop(cm) EXCEPT !.file_comments = <<>>, !.next_comment = 1]

LoadComments(cm) ==
  [ cm EXCEPT !.file_comments = @ \o getCommentsInFile(cm.current_file),
              !.next_comment = 1 ]

\* Visit all comments from the current file up to the current decl.
RECURSIVE VisitCommentsBefore(_, _)
VisitCommentsBefore(cm, decl) ==
  IF /\ cm.next_comment <= Len(cm.file_comments)
     /\ RawLess(CommentBegin(cm.file_comments[cm.next_comment]), decl.begin)
  THEN LET comment == cm.file_comments[cm.next_comment]
           visited == IF comment # getRawCommentForDeclNoCache(decl)
                      THEN VisitTopLevelComment(cm, comment)
                      ELSE cm
       IN  VisitCommentsBefore([visited EXCEPT !.next_comment = @ + 1], decl)
  ELSE cm

\* Skip comments that are within the decl.
RECURSIVE SkipCommentsWithin(_, _)
SkipCommentsWithin(cm, decl) ==
  IF /\ cm.next_comment <= Len(cm.file_comments)
     /\ RawLess(CommentBegin(cm.file_comments[cm.next_comment]), decl.end)
  THEN SkipCommentsWithin([cm EXCEPT !.next_comment = @ + 1], decl)
  ELSE cm

CommentManagerTraverseDecl(cm, decl) ==
  LET file == getFileID(decl.begin)
      in_file == IF file # cm.current_file
                 THEN LoadComments([FlushComments(cm) EXCEPT !.current_file = file])
                 ELSE cm
      before == VisitCommentsBefore(in_file, decl)
  IN  IF file = NoFile THEN cm
      ELSE IF decl.kind # "namespace" THEN SkipCommentsWithin(before, decl)
      ELSE before

(***************************************************************************)
(* AstVisitor::EmitIRItems.  order is the order in which the hash map      *)
(* seen_decls_ is iterated: a sequence of its keys.                        *)
(***************************************************************************)
LocalOrder(decl) ==
  IF decl.kind = "record" THEN (IF decl.decl_context = "record" THEN 1 ELSE 0)
  ELSE IF decl.kind = "function" /\ decl.fkind = "constructor"
  THEN CASE decl.ctor = "default" -> 2
         [] decl.ctor = "copy" -> 3
         [] decl.ctor = "move" -> 4
         [] OTHER -> 5
  ELSE IF decl.kind = "function" /\ decl.fkind = "destructor" THEN 6
  ELSE 7

\* A comparator without the tie-break on local_order.
ItemLessByLocation(a, b) ==
  IF ~isValid(a[1]) \/ ~isValid(b[1])
  THEN ~isValid(a[1]) /\ isValid(b[1])
  ELSE isBeforeInTranslationUnit(a[1], b[1])

\* A comparator that puts the items without a location last.
ItemLessInvalidLast(a, b) ==
  LET aloc == a[1]
      bloc == b[1]
  IN  IF ~isValid(aloc) \/ ~isValid(bloc)
      THEN isValid(aloc) /\ ~isValid(bloc)
      ELSE \/ isBeforeInTranslationUnit(aloc, bloc)
           \/ (aloc = bloc /\ a[2] < b[2])

\* The comparator of the stable sort, on tuples <<location, local_order, item>>.
ItemLess(a, b) ==
  LET aloc == a[1]
      bloc == b[1]
  IN  IF ~isValid(aloc) \/ ~isValid(bloc)
      THEN ~isValid(aloc) /\ isValid(bloc)
      ELSE \/ isBeforeInTranslationUnit(aloc, bloc)
           \/ (aloc = bloc /\ a[2] < b[2])

\* std::stable_sort: each element goes before the first element of the
\* sorted prefix that it is less than.
RECURSIVE InsertSorted(_, _)
InsertSorted(sorted, x) ==
  IF sorted = <<>> THEN <<x>>
  ELSE IF ItemLess(x, sorted[Len(sorted)])
  THEN Append(InsertSorted(SubSeq(sorted, 1, Len(sorted) - 1), x), sorted[Len(sorted)])
  ELSE Append(sorted, x)

RECURSIVE StableSort(_)
StableSort(items) ==
  IF items = <<>> THEN <<>>
  ELSE InsertSorted(StableSort(SubSeq(items, 1, Len(items) - 1)), items[Len(items)])

\* The tuples collected before the sort.
CollectItems(seen, comments, order) ==
  Concat([i \in DOMAIN order |->
            [j \in DOMAIN seen[order[i]] |->
               <<D(order[i]).begin, LocalOrder(D(order[i])), seen[order[i]][j]>>]])
  \o [i \in DOMAIN comments |-> <<CommentBegin(comments[i]), 0, Comment(comments[i])>>]

EmitIRItems(seen, comments, order) ==
  LET sorted == StableSort(CollectItems(seen, comments, order))
  IN  [i \in DOMAIN sorted |-> sorted[i][3]]

\* The orders in which a hash map with the given keys can be iterated.
IterationOrders(keys) ==
  {order \in [1..Cardinality(keys) -> keys] : Range(order) = keys}

(***************************************************************************)
(* The traversal: AstVisitor::TraverseTranslationUnitDecl and              *)
(* AstVisitor::TraverseDecl.                                               *)
(*   pc                "start", "traverse", "done", or "aborted" (a CHECK  *)
(*                     or LOG(FATAL) ended the process)                    *)
(*   pos               the index in Decls of the declaration traversed last *)
(*   tu                the declarations of the translation unit so far     *)
(*   entered           the declarations Base::TraverseDecl was called for  *)
(*                     (their children are traversed)                      *)
(*   seen_decls        seen_decls_: the items of each canonical declaration *)
(*   known_type_decls  known_type_decls_                                   *)
(*   comment_manager   comment_manager_                                    *)
(*   ir                ir_                                                 *)
(*   call              a call of one function of the visitor on its own:   *)
(*                     the function, its arguments and, once it returned,  *)
(*                     its result                                          *)
(***************************************************************************)
VARIABLES pc, pos, tu, entered, seen_decls, known_type_decls, comment_manager, ir, call

vars == <<ctx, pc, pos, tu, entered, seen_decls, known_type_decls, comment_manager, ir, call>>

\* No function is called on its own during a traversal.
NoCall == [fn |-> "", args |-> <<>>, result |-> <<>>]

Init ==
  /\ ctx = Decls
  /\ pc = "start"
  /\ pos = 0
  /\ tu = {}
  /\ entered = {}
  /\ seen_decls = [k \in Keys |-> <<>>]
  /\ known_type_decls = {}
  /\ comment_manager = [ current_file |-> NoFile, file_comments |-> <<>>,
                         next_comment |-> 1, comments |-> <<>> ]
  /\ ir = [used_headers |-> <<>>, current_target |-> "", items |-> <<>>]
  /\ call = NoCall

\* A traversal that remembers no declaration: every redeclaration is visited
\* again.
SeenNothing(key) == FALSE

\* seen_decls_.contains(decl)
Seen(key) == seen_decls[key] # <<>>

\* TraverseTranslationUnitDecl, up to the traversal of the declarations.
BeginTranslationUnit ==
  /\ pc = "start"
  /\ pc' = "traverse"
  /\ ir' = [ir EXCEPT !.used_headers = @ \o public_header_names,
                      !.current_target = current_target]
  /\ UNCHANGED <<ctx, pos, tu, entered, seen_decls, known_type_decls, comment_manager, call>>

\* The definition that a parsed forward declaration promises.
Promised(i) == \E k \in tu : D(k).kind = "record" /\ D(k).def = ctx[i].key

\* ctx[i] can be the next declaration of the translation unit: what it
\* names was declared before it, its parent is being traversed, and no
\* promised definition is left out.
CanBeNext(i) ==
  /\ i > pos
  /\ ctx[i].requires \subseteq tu
  /\ ctx[i].decl_context \in {"record", "namespace"} => ctx[i].parent \in entered
  /\ \A j \in (pos + 1)..(i - 1) : ~Promised(j)
  /\ Cardinality(tu) + (IF ctx[i].kind = "record" /\ ctx[i].def \notin {"", ctx[i].key}
                        THEN 2 ELSE 1) <= MaxDecls

Parsed(i) ==
  /\ pos' = i
  /\ tu' = tu \cup {ctx[i].key}

\* TraverseDecl of a declaration that was already seen.
TraverseSeenDecl(i) ==
  LET decl == ctx[i]
      canonical == getCanonicalDecl(decl.key, tu)
  IN  /\ pc = "traverse"
      /\ CanBeNext(i)
      /\ Seen(canonical) /\ decl.kind # "namespace"
      /\ Parsed(i)
      /\ UNCHANGED <<ctx, pc, entered, seen_decls, known_type_decls, comment_manager, ir, call>>

\* A TraverseDecl that returns for a declaration in a namespace without
\* recording anything.
TraverseDeclInNamespaceSilently(i) ==
  LET decl == ctx[i]
      canonical == getCanonicalDecl(decl.key, tu)
  IN  /\ pc = "traverse"
      /\ CanBeNext(i)
      /\ ~(Seen(canonical) /\ decl.kind # "namespace")
      /\ decl.decl_context = "namespace"
      /\ Parsed(i)
      /\ UNCHANGED <<ctx, pc, entered, seen_decls, known_type_decls, comment_manager, ir, call>>

\* TraverseDecl of a declaration whose context is a namespace.
TraverseDeclInNamespace(i) ==
  LET decl == ctx[i]
      canonical == getCanonicalDecl(decl.key, tu)
  IN  /\ pc = "traverse"
      /\ CanBeNext(i)
      /\ ~(Seen(canonical) /\ decl.kind # "namespace")
      /\ decl.decl_context = "namespace"
      /\ Parsed(i)
      /\ seen_decls' =
           [seen_decls EXCEPT ![canonical] = @ \o PushUnsupportedItem(decl,
                "Items contained in namespaces are not supported yet", decl.begin)]
      /\ UNCHANGED <<ctx, pc, entered, known_type_decls, comment_manager, ir, call>>

\* TraverseDecl of any other declaration: the comment manager, then
\* Base::TraverseDecl, which calls the declaration's Visit function.
Dispatched(i) ==
  /\ pc = "traverse"
  /\ CanBeNext(i)
  /\ ~(Seen(getCanonicalDecl(ctx[i].key, tu)) /\ ctx[i].kind # "namespace")
  /\ ctx[i].decl_context # "namespace"
  /\ Parsed(i)
  /\ comment_manager' = CommentManagerTraverseDecl(comment_manager, ctx[i])
  /\ entered' = entered \cup {ctx[i].key}
  /\ UNCHANGED <<ctx, ir, call>>

TraverseFunctionDecl(i) ==
  LET decl == ctx[i]
      present == tu \cup {decl.key}
      visit == VisitFunctionDecl(decl, known_type_decls, present)
  IN  /\ decl.kind = "function"
      /\ Dispatched(i)
      /\ seen_decls' = [seen_decls EXCEPT ![getCanonicalDecl(decl.key, tu)] = @ \o visit.items]
      /\ pc' = IF visit.check_failed THEN "aborted" ELSE "traverse"
      /\ UNCHANGED known_type_decls

TraverseRecordDecl(i) ==
  LET decl == ctx[i]
      present == tu \cup {decl.key}
      visit == VisitRecordDecl(decl, known_type_decls, present)
  IN  /\ decl.kind = "record"
      /\ Dispatched(i)
      /\ seen_decls' = [seen_decls EXCEPT ![getCanonicalDecl(decl.key, tu)] = @ \o visit.items]
      /\ known_type_decls' = visit.known
      /\ UNCHANGED pc

TraverseTypedefNameDecl(i) ==
  LET decl == ctx[i]
      present == tu \cup {decl.key}
      visit == VisitTypedefNameDecl(decl, known_type_decls, present)
  IN  /\ decl.kind = "typedef"
      /\ Dispatched(i)
      /\ seen_decls' = [seen_decls EXCEPT ![getCanonicalDecl(decl.key, tu)] = @ \o visit.items]
      /\ known_type_decls' = visit.known
      /\ pc' = IF visit.check_failed THEN "aborted" ELSE "traverse"

TraverseNamespaceDecl(i) ==
  /\ ctx[i].kind = "namespace"
  /\ Dispatched(i)
  /\ UNCHANGED <<pc, seen_decls, known_type_decls>>

\* The end of TraverseTranslationUnitDecl: FlushComments and EmitIRItems.
EndTranslationUnit ==
  /\ pc = "traverse"
  /\ \A j \in (pos + 1)..Len(ctx) : ~Promised(j)
  /\ LET flushed == FlushComments(comment_manager)
     IN  /\ comment_manager' = flushed
         /\ \E order \in IterationOrders({k \in DOMAIN seen_decls : Seen(k)}) :
              ir' = [ir EXCEPT !.items = @ \o EmitIRItems(seen_decls, flushed.comments, order)]
  /\ pc' = "done"
  /\ UNCHANGED <<ctx, pos, tu, entered, seen_decls, known_type_decls, call>>

Next ==
  \/ BeginTranslationUnit
  \/ \E i \in DOMAIN ctx : TraverseSeenDecl(i)
  \/ \E i \in DOMAIN ctx : TraverseDeclInNamespace(i)
  \/ \E i \in DOMAIN ctx : TraverseFunctionDecl(i)
  \/ \E i \in DOMAIN ctx : TraverseRecordDecl(i)
  \/ \E i \in DOMAIN ctx : TraverseTypedefNameDecl(i)
  \/ \E i \in DOMAIN ctx : TraverseNamespaceDecl(i)
  \/ EndTranslationUnit

Spec == Init /\ [][Next]_vars

(***************************************************************************)
(* Properties of the lowering.                                             *)
(***************************************************************************)
CountKind(items, kind) == Cardinality({j \in DOMAIN items : items[j].kind = kind})

DeclItemKinds == {"Func", "Record", "TypeAlias"}

\* The keys of seen_decls_.
SeenKeys == {k \in Keys : Seen(k)}

\* The item that is a Func named name.
IsFunc(item, name) == item.kind = "Func" /\ item.name.ident = name

\* C1: whatever declarations and redeclarations were traversed, the items
\* recorded for a canonical declaration hold at most one Func, one Record and
\* one TypeAlias, items are only recorded for canonical declarations, and the
\* emitted IR holds exactly the recorded ones: at most one item of each kind
\* per canonical declaration.
C1_CanonicalDedup ==
  /\ \A k \in Keys : \A kind \in DeclItemKinds : CountKind(seen_decls[k], kind) <= 1
  /\ \A k \in SeenKeys : k \in tu /\ getCanonicalDecl(k, tu) = k
  /\ pc = "done" =>
       \A kind \in DeclItemKinds :
         CountKind(ir.items, kind)
           = Cardinality({k \in Keys : CountKind(seen_decls[k], kind) = 1})

\* A function declared twice was traversed and emitted once.
C1_Witness ==
  /\ pc = "done"
  /\ {"A0", "A0'"} \subseteq tu
  /\ Cardinality({j \in DOMAIN ir.items : IsFunc(ir.items[j], "A0")}) = 1

\* C2: the emitted sequence does not depend on the order in which seen_decls_
\* is iterated: every iteration order yields the sequence that was emitted.
C2_Deterministic ==
  pc = "done" =>
    \A order \in IterationOrders(SeenKeys) :
      EmitIRItems(seen_decls, comment_manager.comments, order) = ir.items

\* The tuples <<location, local_order, item>> are in source order, and in
\* the order of local_order where the locations are equal.
InSourceOrder(sorted) ==
  \A i, j \in DOMAIN sorted :
    (i < j /\ isValid(sorted[i][1]) /\ isValid(sorted[j][1])) =>
      /\ ~isBeforeInTranslationUnit(sorted[j][1], sorted[i][1])
      /\ sorted[i][1] = sorted[j][1] => sorted[i][2] <= sorted[j][2]

\* C3: the emitted items with valid begin locations are in the order of
\* their declarations' and comments' begin locations in the translation
\* unit, and those with equal begin locations in the order of local_order.
C3_SourceOrder ==
  pc = "done" =>
    \A order \in IterationOrders(SeenKeys) :
      LET sorted == StableSort(CollectItems(seen_decls, comment_manager.comments, order))
      IN  ir.items = [i \in DOMAIN sorted |-> sorted[i][3]] => InSourceOrder(sorted)

\* A record (local_order 0) and a function (local_order 7) that begin at the
\* same location, and a comment before them: comment, record, function.
C3_Witness ==
  /\ pc = "done"
  /\ {"P", "MakeP"} \subseteq tu
  /\ D("P").begin = D("MakeP").begin
  /\ \E i, j, k \in DOMAIN ir.items :
       /\ i < j /\ j < k
       /\ ir.items[i] = Comment("top")
       /\ ir.items[j].kind = "Record" /\ ir.items[j].identifier = "P"
       /\ IsFunc(ir.items[k], "MakeP")

\* C4: the doc comment of a traversed declaration is not among the emitted
\* Comment items.
C4_DocCommentNotSeparate ==
  pc = "done" =>
    \A k \in entered :
      getRawCommentForDeclNoCache(D(k)) # "" =>
        \A j \in DOMAIN ir.items :
          ir.items[j] # Comment(getRawCommentForDeclNoCache(D(k)))

\* C5: no item at all is recorded for a member function that is not public.
C5_NonPublicMethodSilent ==
  \A k \in tu :
    (D(k).kind = "function" /\ IsCXXMethodDecl(D(k)) /\ D(k).access # "public")
      => seen_decls[getCanonicalDecl(k, tu)] = <<>>

\* The declarations of the translation unit that another target owns.
OfOtherTarget == {k \in tu : GetOwningTarget(D(k)) # current_target}

\* C6 as stated: no item of any kind is recorded for a declaration that
\* another target owns.
C6_OtherTargetNoItem ==
  \A k \in OfOtherTarget : seen_decls[getCanonicalDecl(k, tu)] = <<>>

\* C6, amended: no Func and no UnsupportedItem is recorded for a declaration
\* that another target owns, and every emitted Func is owned by the current
\* target; Records and TypeAliases are recorded whatever the owning target.
C6_OtherTargetNoFuncNoUnsupported ==
  /\ \A k \in OfOtherTarget :
       \A j \in DOMAIN seen_decls[getCanonicalDecl(k, tu)] :
         seen_decls[getCanonicalDecl(k, tu)][j].kind \in {"Record", "TypeAlias"}
  /\ \A j \in DOMAIN ir.items :
       ir.items[j].kind = "Func" => ir.items[j].owning_target = current_target

\* A function with an unsupported parameter type, a record with an
\* unsupported field type and a record, all of another target: only the
\* record is emitted.
C6_Witness ==
  /\ pc = "done"
  /\ {"BS", "BF", "BBad"} \subseteq tu
  /\ \A j \in DOMAIN ir.items : ir.items[j].kind \in {"Comment", "Record"}
  /\ \E j \in DOMAIN ir.items :
       ir.items[j].kind = "Record" /\ ir.items[j].owning_target # current_target

\* VisitRecordDecl of ctx[i] reaches ImportFields, and a field fails.
FieldImportFails(i) ==
  /\ ctx[i].kind = "record"
  /\ ctx[i].decl_context = "tu" /\ ~ctx[i].union
  /\ getDefinition(ctx[i]) # ""
  /\ LET record_decl == D(getDefinition(ctx[i]))
     IN  /\ ~record_decl.invalid /\ record_decl.complete
         /\ ~(record_decl.cxx /\ record_decl.template)
         /\ GetTranslatedIdentifier(record_decl, FALSE) # None
         /\ ~ImportFields(record_decl,
                          IF record_decl.cxx /\ record_decl.class THEN "private" ELSE "public",
                          insert(known_type_decls, record_decl),
                          tu \cup {ctx[i].key}).ok

\* A field of the record cannot be converted whatever declarations are known.
FieldNeverImports(record_decl) ==
  \E j \in DOMAIN record_decl.fields :
    ~ConvertType(record_decl.fields[j].type, NoLifetimes, kDefaultNullable, Keys, Keys).ok

\* The record as a type, and a pointer to it, convert.
RecordTypeConverts(record_decl, known, present) ==
  \/ ConvertType(TagT(record_decl.name, record_decl.key), NoLifetimes, kDefaultNullable,
                 known, present).ok
  \/ ConvertType(PointerT(TagT(record_decl.name, record_decl.key)), NoLifetimes,
                 kDefaultNullable, known, present).ok

\* C7: a VisitRecordDecl in which the import of a field fails leaves the
\* record out of known_type_decls_, leaves every other entry of
\* known_type_decls_ as it was, records no Record, and a type that names the
\* record does not convert afterwards; a record with a field that can never
\* be imported is never in known_type_decls_.
C7_FieldFailureRetracts ==
  /\ [][\A i \in DOMAIN ctx :
          (TraverseRecordDecl(i) /\ FieldImportFails(i)) =>
            LET record_decl == D(getDefinition(ctx[i]))
            IN  /\ record_decl.key \notin known_type_decls'
                /\ known_type_decls' \ {record_decl.key}
                     = known_type_decls \ {record_decl.key}
                /\ \A k \in Keys :
                     CountKind(seen_decls'[k], "Record") = CountKind(seen_decls[k], "Record")
                /\ ~RecordTypeConverts(record_decl, known_type_decls', tu')]_vars
  /\ [](\A k \in tu :
          (D(k).kind = "record" /\ FieldNeverImports(D(k))) =>
            /\ k \notin known_type_decls
            /\ ~RecordTypeConverts(D(k), known_type_decls, tu))

\* After a record that was imported, the import of a record failed on its
\* second field, and a function taking a pointer to it was refused.
C7_Witness ==
  /\ {"P", "Bad", "UseBad"} \subseteq tu
  /\ known_type_decls = {"P"}
  /\ CountKind(seen_decls["Bad"], "Record") = 0
  /\ CountKind(seen_decls["Bad"], "UnsupportedItem") = 1
  /\ \E j \in DOMAIN seen_decls["UseBad"] :
       seen_decls["UseBad"][j].message = "Parameter type 'Bad *' is not supported"
  /\ CountKind(seen_decls["UseBad"], "Func") = 0

\* The messages of the UnsupportedItems recorded for a parameter, a field and
\* a return type.
ParamMessages(param) ==
  { "Parameter type '" \o getAsString(param.type) \o "' is not supported",
    "Non-trivial_abi type '" \o getAsString(param.type)
      \o "' is not supported by value as a parameter" }
FieldMessages(field_decl) ==
  { "Field type '" \o getAsString(field_decl.type) \o "' is not supported",
    "Cannot translate name for field '" \o field_decl.name \o "'" }
ReturnMessages(function_decl) ==
  { "Non-trivial_abi type '" \o getAsString(function_decl.ret)
      \o "' is not supported by value as a return type",
    "Return type '" \o getAsString(function_decl.ret) \o "' is not supported" }

\* The fields of the definition of a record declaration.
FieldsOf(decl) ==
  IF decl.kind = "record" /\ getDefinition(decl) # "" THEN D(getDefinition(decl)).fields
  ELSE <<>>

\* The items recorded for canonical declarations that carry a source location.
LocatedItems(k) ==
  {item \in Range(seen_decls[k]) : item.kind \in {"Func", "UnsupportedItem"}}

\* C8 as stated: every item with a source location that was recorded for a
\* declaration has the declaration's begin location.
C8_SourceLocIsDeclBegin ==
  \A k \in Keys : \A item \in LocatedItems(k) :
    item.source_loc = ConvertSourceLocation(D(k).begin)

\* C8, amended: a Func has the begin location of its declaration; an
\* UnsupportedItem has the location it was recorded with: the parameter's
\* begin for a parameter, the field's begin for a field, the begin of the
\* return type for a return type, and the begin of a declaration of the
\* entity otherwise.  Every item of a declaration is sorted by the begin
\* location of the canonical declaration.
C8_SourceLocIsRecordedLocation ==
  /\ \A k \in Keys : \A item \in LocatedItems(k) :
       /\ item.kind = "Func" => item.source_loc = ConvertSourceLocation(D(k).begin)
       /\ item.kind = "UnsupportedItem" =>
            \/ \E i \in DOMAIN D(k).params :
                 /\ item.message \in ParamMessages(D(k).params[i])
                 /\ item.source_loc = ConvertSourceLocation(D(k).params[i].begin)
            \/ \E i \in DOMAIN FieldsOf(D(k)) :
                 /\ item.message \in FieldMessages(FieldsOf(D(k))[i])
                 /\ item.source_loc = ConvertSourceLocation(FieldsOf(D(k))[i].begin)
            \/ /\ item.message \in ReturnMessages(D(k))
               /\ item.source_loc = ConvertSourceLocation(D(k).ret_begin)
            \/ /\ \A i \in DOMAIN D(k).params : item.message \notin ParamMessages(D(k).params[i])
               /\ \A i \in DOMAIN FieldsOf(D(k)) :
                    item.message \notin FieldMessages(FieldsOf(D(k))[i])
               /\ item.message \notin ReturnMessages(D(k))
               /\ \E d \in Keys :
                    /\ D(d).entity = D(k).entity
                    /\ item.source_loc = ConvertSourceLocation(D(d).begin)
  /\ \A order \in IterationOrders(SeenKeys) :
       LET tuples == CollectItems(seen_decls, <<>>, order)
       IN  \A t \in DOMAIN tuples :
             \E k \in SeenKeys :
               tuples[t][3] \in Range(seen_decls[k]) /\ tuples[t][1] = D(k).begin

\* The UnsupportedItem of a record's second field has the field's location,
\* not the record's, and the Func of a function its declaration's.
C8_Witness ==
  /\ pc = "done"
  /\ {"Bad", "F"} \subseteq tu
  /\ \E j \in DOMAIN ir.items :
       /\ ir.items[j].kind = "UnsupportedItem"
       /\ ir.items[j].message = "Field type 'int &&' is not supported"
       /\ ir.items[j].source_loc = ConvertSourceLocation(D("Bad").fields[2].begin)
       /\ ir.items[j].source_loc # ConvertSourceLocation(D("Bad").begin)
  /\ \E j \in DOMAIN ir.items :
       /\ IsFunc(ir.items[j], "F")
       /\ ir.items[j].source_loc = ConvertSourceLocation(D("F").begin)

\* The type is, behind its typedefs, a record passed by value that cannot be
\* passed in registers.
IsNonPassableRecordByValue(type) ==
  /\ getAs(type, "tag") # None
  /\ D(getAs(type, "tag")[1].decl).kind = "record"
  /\ ~canPassInRegisters(D(getAs(type, "tag")[1].decl))

\* The functions VisitFunctionDecl converts: visited, of the current target
\* and not deleted.
ConvertedFunctions ==
  {k \in entered : /\ D(k).kind = "function"
                   /\ GetOwningTarget(D(k)) = current_target
                   /\ ~D(k).deleted}

\* A Func was recorded only for a function whose parameter types, return
\* type and `this` type convert and are no records passed by value that
\* cannot be passed in registers.
FuncOnlyWhenAllAccepted ==
  \A k \in ConvertedFunctions :
    CountKind(seen_decls[getCanonicalDecl(k, tu)], "Func") = 1 =>
      /\ \A i \in DOMAIN D(k).params :
           /\ ConvertType(D(k).params[i].type, NoLifetimes, kDefaultNullable,
                          known_type_decls, tu).ok
           /\ ~IsNonPassableRecordByValue(D(k).params[i].type)
      /\ ConvertType(D(k).ret, NoLifetimes, kDefaultNullable, known_type_decls, tu).ok
      /\ ~IsNonPassableRecordByValue(D(k).ret)
      /\ (IsCXXMethodDecl(D(k)) /\ D(k).instance) =>
           ConvertType(getThisType(D(k)), NoLifetimes, FALSE, known_type_decls, tu).ok

\* C9: for a converted function, every parameter and return type that is a
\* record passed by value which cannot be passed in registers has its
\* UnsupportedItem and no Func is recorded; a Func is recorded only when
\* every parameter, the return type and the `this` type were accepted.
C9_NonPassableByValueRefused ==
  /\ \A k \in ConvertedFunctions :
       LET items == seen_decls[getCanonicalDecl(k, tu)]
           refused == {i \in DOMAIN D(k).params :
                         IsNonPassableRecordByValue(D(k).params[i].type)}
       IN  /\ \A i \in refused :
                \E j \in DOMAIN items :
                  /\ items[j].kind = "UnsupportedItem"
                  /\ items[j].message =
                       "Non-trivial_abi type '" \o getAsString(D(k).params[i].type)
                         \o "' is not supported by value as a parameter"
           /\ IsNonPassableRecordByValue(D(k).ret) =>
                \E j \in DOMAIN items :
                  /\ items[j].kind = "UnsupportedItem"
                  /\ items[j].message =
                       "Non-trivial_abi type '" \o getAsString(D(k).ret)
                         \o "' is not supported by value as a return type"
           /\ (refused # {} \/ IsNonPassableRecordByValue(D(k).ret)) =>
                CountKind(items, "Func") = 0
  /\ FuncOnlyWhenAllAccepted

\* The copy constructor of the record is user-provided.
HasUserProvidedCopyConstructor(record_decl) ==
  /\ record_decl.copy.user_declared
  /\ ~record_decl.copy.deleted /\ ~record_decl.copy.defaulted

\* C10: the is_trivial_abi of every recorded Record is whether the record can
\* be passed in registers, whatever its copy constructor: with a
\* user-provided copy constructor (definition nontrivial) it is true for a
\* record with the trivial_abi attribute and false for one without.
C10_TrivialAbiIsPassableInRegisters ==
  \A k \in Keys : \A item \in Range(seen_decls[k]) :
    item.kind = "Record" =>
      LET record_decl == D(getDefinition(D(k)))
      IN  /\ item.is_trivial_abi = canPassInRegisters(record_decl)
          /\ HasUserProvidedCopyConstructor(record_decl) =>
               /\ item.copy_constructor.definition = "nontrivial"
               /\ item.is_trivial_abi = record_decl.trivial_abi

\* Two records with a user-provided copy constructor, one with the
\* trivial_abi attribute and one without, were emitted.
C10_Witness ==
  /\ pc = "done"
  /\ \E i, j \in DOMAIN ir.items :
       /\ ir.items[i].kind = "Record" /\ ir.items[i].identifier = "T"
       /\ ir.items[i].copy_constructor.definition = "nontrivial"
       /\ ir.items[i].is_trivial_abi
       /\ ir.items[j].kind = "Record" /\ ir.items[j].identifier = "U"
       /\ ir.items[j].copy_constructor.definition = "nontrivial"
       /\ ~ir.items[j].is_trivial_abi

(***************************************************************************)
(* Calls of single functions of the visitor.  A call starts with its       *)
(* arguments drawn from the sets below, in a visitor that has traversed    *)
(* the whole fixture or none of its types, and ends with its result.       *)
(***************************************************************************)
\* The typedef `typedef underlying name;` of <stdint.h> or <stddef.h>.
StdTypedefT(name, underlying) == TypedefT(name, name, underlying)

CharT == BuiltinT("char", "Int", 8, TRUE)
UCharT == BuiltinT("unsigned char", "Int", 8, FALSE)
SCharT == BuiltinT("signed char", "Int", 8, TRUE)
ShortT == BuiltinT("short", "Int", 16, TRUE)
UShortT == BuiltinT("unsigned short", "Int", 16, FALSE)
UIntT == BuiltinT("unsigned int", "Int", 32, FALSE)
LongT == BuiltinT("long", "Int", 64, TRUE)
ULongT == BuiltinT("unsigned long", "Int", 64, FALSE)
LongLongT == BuiltinT("long long", "Int", 64, TRUE)
ULongLongT == BuiltinT("unsigned long long", "Int", 64, FALSE)
DoubleT == BuiltinT("double", "Double", 64, TRUE)

\* The field types of the struct of the IntegerTypes test.
IntegerTypesFields ==
  { BoolT, CharT, UCharT, SCharT,
    BuiltinT("char16_t", "Int", 16, FALSE), BuiltinT("char32_t", "Int", 32, FALSE),
    BuiltinT("wchar_t", "Int", 32, TRUE),
    ShortT, IntT, LongT, LongLongT, UShortT, UIntT, ULongT, ULongLongT,
    StdTypedefT("int8_t", SCharT), StdTypedefT("int16_t", ShortT),
    StdTypedefT("int32_t", IntT), StdTypedefT("int64_t", LongT),
    StdTypedefT("uint8_t", UCharT), StdTypedefT("uint16_t", UShortT),
    StdTypedefT("uint32_t", UIntT), StdTypedefT("uint64_t", ULongT),
    StdTypedefT("ptrdiff_t", LongT), StdTypedefT("size_t", ULongT),
    StdTypedefT("intptr_t", LongT), StdTypedefT("uintptr_t", ULongT),
    FloatT, DoubleT }

\* Further types: 128-bit integers and long double, the pointer-sized
\* typedefs of a 32-bit target, a typedef of namespace std, void, the records
\* and typedefs of the fixture, and an rvalue reference.
OtherTypes ==
  { BuiltinT("__int128", "Int", 128, TRUE), BuiltinT("unsigned __int128", "Int", 128, FALSE),
    BuiltinT("long double", "LongDouble", 128, TRUE),
    StdTypedefT("size_t", UIntT), StdTypedefT("ptrdiff_t", IntT),
    StdTypedefT("std::size_t", ULongT),
    VoidT, TagT("P", "P"), TagT("S", "S"), TagT("N", "N"),
    TypedefT("NT", "NT", TagT("N", "N")), TypedefT("BT", "BT", IntT),
    RValueReferenceT(IntT) }

BaseTypes == IntegerTypesFields \cup OtherTypes

\* The base types, qualified and under up to three pointer or reference
\* layers, and a typedef of a pointer.
TestTypes ==
  UNION { { t, ConstT(t), PointerT(t), PointerT(ConstT(t)), ConstT(PointerT(t)),
            LValueReferenceT(t), LValueReferenceT(ConstT(t)),
            PointerT(PointerT(t)), LValueReferenceT(PointerT(t)),
            LValueReferenceT(PointerT(PointerT(t))) } : t \in BaseTypes }
  \cup { TypedefT("IntPtr", "IntPtr", PointerT(IntT)),
         PointerT(TypedefT("IntPtr", "IntPtr", PointerT(IntT))) }

\* The lifetime stacks of a call: none, or one to three lifetimes.
MaxLifetimes == 3
TestLifetimes ==
  {NoLifetimes} \cup {Lifetimes([i \in 1..n |-> i]) : n \in 0..MaxLifetimes}

\* known_type_decls_ before and after the traversal of the fixture.
KnownTypeDecls == {{}, {"P", "S", "N", "NT", "C", "T", "U"}}

ConvertTypeCalls ==
  { [fn |-> "ConvertType",
     args |-> [qual_type |-> t, lifetimes |-> l, nullable |-> n],
     result |-> <<>>] : t \in TestTypes, l \in TestLifetimes, n \in BOOLEAN }

\* The locations of a declaration: in every file, and the invalid one.
TestLocations == {Loc(f, o) : f \in DOMAIN Files, o \in {0, 5}} \cup {InvalidLoc}

GetOwningTargetCalls ==
  { [fn |-> "GetOwningTarget",
     args |-> [decl |-> [NoDecl EXCEPT !.loc = l]],
     result |-> <<>>] : l \in TestLocations }

\* A special member function as a record's definition writes it: how
\* ("implicit": not at all, "default": = default, "delete": = delete,
\* "define": with a body of its own) and in which access section ("none":
\* before the first one).
SpecialMemberSyntax ==
  {[how |-> "implicit", section |-> "none"]}
  \cup {[how |-> h, section |-> s] : h \in {"default", "delete", "define"},
                                    s \in {"none", "public", "private"}}

\* Decl::getAccess() of a member: its section, or the default of the class
\* key.
getAccessOfStructMember(section, class) == IF section # "none" THEN section ELSE "public"
getAccess(section, class) ==
  IF section # "none" THEN section ELSE IF class THEN "private" ELSE "public"

\* What the parser reports of a special member function of a record without
\* bases and with fields of builtin types, after
\* Sema::ForceDeclarationOfImplicitMembers.  An implicit member is public;
\* it is deleted or not declared at all when a declaration of another
\* member suppresses it; a member defaulted in the record is trivial.
DeclaredMember(written, class, suppressed) ==
  IF written.how = "implicit"
  THEN IF suppressed THEN Suppressed("public") ELSE ImplicitTrivial("public")
  ELSE Member(TRUE, written.how = "delete", written.how = "default",
              written.how = "default", getAccess(written.section, class))

\* The fields of the records of the tests Struct and
\* MemberVariableAccessSpecifiers, no field, and fields the last of which
\* has a type without a mapping.
IntField(name, section, index) ==
  FieldDecl(IntT, name, section, Loc("a", 2 + index), 32 * index)
TestFields ==
  { <<>>,
    <<IntField("first_field", "none", 0), IntField("second_field", "none", 1)>>,
    <<IntField("default_access_int", "none", 0), IntField("public_int", "public", 1),
      IntField("protected_int", "protected", 2), IntField("private_int", "private", 3)>>,
    <<IntField("default_access_int", "none", 0)>>,
    <<IntField("x", "private", 0),
      FieldDecl(RValueReferenceT(IntT), "r", "public", Loc("a", 3), 32)>> }

\* struct R or class R with the special members and fields as written.
WrittenRecords ==
  { [class |-> c, copy |-> w, move |-> x, dtor |-> y, fields |-> <<>>] :
      c \in BOOLEAN, <<w, x, y>> \in SpecialMemberSyntax \X SpecialMemberSyntax \X SpecialMemberSyntax }
  \cup { [class |-> c, copy |-> w, move |-> w, dtor |-> w, fields |-> f] :
      c \in BOOLEAN, w \in {[how |-> "implicit", section |-> "none"]}, f \in TestFields }

\* The RecordDecl of a written record.
ParsedRecord(written) ==
  [ RecordDecl("R", "R", "R", "a", 1, 9, written.fields, {}) EXCEPT
      !.class = written.class,
      !.copy = DeclaredMember(written.copy, written.class, written.move.how # "implicit"),
      !.move = DeclaredMember(written.move, written.class,
                              written.copy.how # "implicit" \/ written.dtor.how # "implicit"),
      !.dtor = DeclaredMember(written.dtor, written.class, FALSE) ]

\* struct R final {} and class R final {}, and the struct R {} of a header
\* parsed as C, whose declaration is a RecordDecl but no CXXRecordDecl.
EmptyRecord(class) ==
  LET implicit == [how |-> "implicit", section |-> "none"]
  IN  [class |-> class, copy |-> implicit, move |-> implicit, dtor |-> implicit,
       fields |-> <<>>]
FinalAndCRecords ==
  { [ParsedRecord(EmptyRecord(c)) EXCEPT !.final = TRUE] : c \in BOOLEAN }
    \cup { [ParsedRecord(EmptyRecord(FALSE)) EXCEPT !.cxx = FALSE] }

\* struct R and class R with fields that point or refer to R itself:
\* R* p, R& r and const R* c.
SelfReferringFields ==
  LET p == FieldDecl(PointerT(TagT("R", "R")), "p", "none", Loc("a", 3), 0)
      r == FieldDecl(LValueReferenceT(TagT("R", "R")), "r", "none", Loc("a", 5), 64)
      c == FieldDecl(PointerT(ConstT(TagT("R", "R"))), "c", "none", Loc("a", 7), 128)
  IN  { <<p>>, <<[r EXCEPT !.offset = 0]>>, <<[c EXCEPT !.offset = 0]>>, <<p, r, c>> }
SelfReferringRecords ==
  { [ParsedRecord(EmptyRecord(class)) EXCEPT !.fields = fields, !.size = 8 * Len(fields),
                                             !.alignment = 8] :
      class \in BOOLEAN, fields \in SelfReferringFields }

VisitRecordDeclCalls ==
  { [fn |-> "VisitRecordDecl",
     args |-> [record_decl |-> ParsedRecord(w), written |-> w],
     result |-> <<>>] : w \in WrittenRecords }
  \cup { [fn |-> "VisitRecordDecl",
          args |-> [record_decl |-> r,
                    written |-> [EmptyRecord(r.class) EXCEPT !.fields = r.fields]],
          result |-> <<>>] : r \in SelfReferringRecords }
  \cup { [fn |-> "VisitRecordDecl",
          args |-> [record_decl |-> r, written |-> EmptyRecord(r.class)],
          result |-> <<>>] : r \in FinalAndCRecords }

\* The parameter lists of the functions called for: up to MaxParams
\* parameters, each named or not, of type int or int&&; the parser numbers
\* the parameters of a function from 0 (getFunctionScopeIndex).
MaxParams == 3
WrittenParams ==
  UNION { [1..n -> {"", "x"} \X {IntT, RValueReferenceT(IntT)}] : n \in 0..MaxParams }
ParsedParams(written) ==
  [ i \in DOMAIN written |->
      Param(written[i][2],
            IF written[i][1] = "" THEN "" ELSE written[i][1] \o ToString(i),
            Loc("a", 4 + i), i - 1) ]

\* class C { public: ... }, and the functions with a parameter list: the
\* function f and the member functions m, static s, and c const of C.
ClassC == [RecordDecl("C", "C", "C", "a", 1, 9, <<>>, {}) EXCEPT !.class = TRUE]
TestFunctions(params) ==
  LET m == MethodDecl("C::m", "m", "C", "a", 3, 4, 8, "public", params, VoidT)
  IN  { FunctionDecl("f", "f", "a", 10, 11, 19, params, VoidT, {}),
        m,
        [m EXCEPT !.instance = FALSE],
        [m EXCEPT !.const_method = TRUE] }

VisitFunctionDeclCalls ==
  { [fn |-> "VisitFunctionDecl",
     args |-> [function_decl |-> f],
     result |-> <<>>] : f \in UNION {TestFunctions(ParsedParams(w)) : w \in WrittenParams} }

\* typedef <underlying> <name>; at the top level of a header of the current
\* target (a.h) or of another target (b.h), or in class C or a function of
\* a.h.
TypedefIn(name, f, underlying, decl_context) ==
  IF decl_context = "tu" THEN TypedefDecl(name, name, f, 20, 22, underlying, {})
  ELSE [ TypedefDecl(name, name, "a", 3, 4, underlying, {"C"}) EXCEPT
           !.decl_context = decl_context, !.parent = "C",
           !.entity = "C::" \o name, !.qname = "C::" \o name ]

TestTypedefs ==
  { TypedefIn(name, f, underlying, "tu") :
      name \in {"T", "size_t", "int32_t"}, f \in {"a", "b"},
      underlying \in {IntT, ULongT, PointerT(IntT), RValueReferenceT(IntT),
                      PointerT(TagT("C", "C")), TagT("C", "C")} }
  \cup { TypedefIn("T", "a", underlying, decl_context) :
           underlying \in {IntT, RValueReferenceT(IntT)},
           decl_context \in {"record", "function"} }

VisitTypedefNameDeclCalls ==
  { [fn |-> "VisitTypedefNameDecl",
     args |-> [typedef_name_decl |-> t],
     result |-> <<>>] : t \in TestTypedefs }

\* The declarations whose items EmitIRItems is called for.  IR and IT have
\* no location (their begin location is invalid); `struct VR {} VF();` of
\* a.h declares a record and a function that begin at the same location;
\* BT is a typedef of b.h, which a.h includes before it declares AF.
SortDecls ==
  << [ RecordDecl("IR", "IR", "IR", NoFile, 0, 0, <<>>, {}) EXCEPT
         !.loc = InvalidLoc, !.begin = InvalidLoc, !.end = InvalidLoc ],
     [ TypedefDecl("IT", "IT", NoFile, 0, 0, IntT, {}) EXCEPT
         !.loc = InvalidLoc, !.begin = InvalidLoc, !.end = InvalidLoc ],
     RecordDecl("VR", "VR", "VR", "a", 2, 4, <<>>, {}),
     FunctionDecl("VF", "VF", "a", 2, 5, 6, <<>>, TagT("VR", "VR"), {"VR"}),
     TypedefDecl("BT", "BT", "b", 2, 3, IntT, {}),
     FunctionDecl("AF", "AF", "a", 40, 41, 42, <<>>, VoidT, {}) >>

\* The comments that the comment manager holds when EmitIRItems is called.
SortComments == {<<>>, <<"top", "in b", "tail">>}

\* The translation units of up to MaxDecls of these declarations.
EmitIRItemsCalls ==
  { [fn |-> "EmitIRItems",
     args |-> [decls |-> SelectSeq(SortDecls, LAMBDA d : d.key \in chosen),
               comments |-> comments],
     result |-> <<>>] :
      chosen \in {S \in SUBSET {"IR", "IT", "VR", "VF", "BT", "AF"} :
                    /\ Cardinality(S) \in 1..MaxDecls
                    /\ "VF" \in S => "VR" \in S},
      comments \in SortComments }

\* What the Visit function of a declaration appends to seen_decls_.
VisitItems(decl, known, present) ==
  CASE decl.kind = "record"   -> VisitRecordDecl(decl, known, present).items
    [] decl.kind = "typedef"  -> VisitTypedefNameDecl(decl, known, present).items
    [] decl.kind = "function" -> VisitFunctionDecl(decl, known, present).items
    [] OTHER -> <<>>

Calls == ConvertTypeCalls \cup GetOwningTargetCalls

\* A call on the fixture, or a call for the one declaration of a
\* translation unit of its own.
InitCalls ==
  /\ \/ /\ call \in Calls
        /\ ctx = Decls
        /\ known_type_decls \in KnownTypeDecls
     \/ /\ call \in VisitRecordDeclCalls
        /\ ctx = <<call.args.record_decl>>
        /\ known_type_decls = {}
     \/ /\ call \in VisitFunctionDeclCalls
        /\ ctx = <<ClassC, call.args.function_decl>>
        /\ known_type_decls \in {{}, {"C"}}
     \/ /\ call \in VisitTypedefNameDeclCalls
        /\ ctx = <<ClassC, call.args.typedef_name_decl>>
        /\ known_type_decls \in {{}, {"C"}}
     \/ /\ call \in EmitIRItemsCalls
        /\ ctx = call.args.decls
        /\ known_type_decls = {ctx[i].key : i \in DOMAIN ctx} \ {"VF", "AF"}
  /\ pc = "call"
  /\ pos = Len(ctx)
  /\ tu = {ctx[i].key : i \in DOMAIN ctx}
  /\ entered = {}
  /\ seen_decls = [k \in tu |-> IF call.fn = "EmitIRItems"
                                THEN VisitItems(D(k), known_type_decls, tu)
                                ELSE <<>>]
  /\ comment_manager = [ current_file |-> NoFile, file_comments |-> <<>>,
                         next_comment |-> 1,
                         comments |-> IF call.fn = "EmitIRItems" THEN call.args.comments
                                      ELSE <<>> ]
  /\ ir = [used_headers |-> <<>>, current_target |-> "", items |-> <<>>]

Returns(result, check_failed) ==
  /\ call' = [call EXCEPT !.result = result]
  /\ pc' = IF check_failed THEN "aborted" ELSE "returned"
  /\ UNCHANGED <<ctx, pos, tu, entered, comment_manager, ir>>

CallConvertType ==
  /\ pc = "call" /\ call.fn = "ConvertType"
  /\ LET result == ConvertType(call.args.qual_type, call.args.lifetimes,
                               call.args.nullable, known_type_decls, tu)
     IN  /\ Returns(result, result.check_failed)
         /\ UNCHANGED <<seen_decls, known_type_decls>>

CallGetOwningTarget ==
  /\ pc = "call" /\ call.fn = "GetOwningTarget"
  /\ Returns(GetOwningTarget(call.args.decl), FALSE)
  /\ UNCHANGED <<seen_decls, known_type_decls>>

CallVisitRecordDecl ==
  /\ pc = "call" /\ call.fn = "VisitRecordDecl"
  /\ LET record_decl == call.args.record_decl
         visit == VisitRecordDecl(record_decl, known_type_decls, tu)
     IN  /\ seen_decls' = [seen_decls EXCEPT
                             ![getCanonicalDecl(record_decl.key, tu)] = @ \o visit.items]
         /\ known_type_decls' = visit.known
         /\ Returns(visit.items, FALSE)

CallVisitFunctionDecl ==
  /\ pc = "call" /\ call.fn = "VisitFunctionDecl"
  /\ LET function_decl == call.args.function_decl
         visit == VisitFunctionDecl(function_decl, known_type_decls, tu)
     IN  /\ seen_decls' = [seen_decls EXCEPT
                             ![getCanonicalDecl(function_decl.key, tu)] = @ \o visit.items]
         /\ Returns(visit.items, visit.check_failed)
         /\ UNCHANGED known_type_decls

CallVisitTypedefNameDecl ==
  /\ pc = "call" /\ call.fn = "VisitTypedefNameDecl"
  /\ LET typedef_name_decl == call.args.typedef_name_decl
         visit == VisitTypedefNameDecl(typedef_name_decl, known_type_decls, tu)
     IN  /\ seen_decls' = [seen_decls EXCEPT
                             ![getCanonicalDecl(typedef_name_decl.key, tu)] = @ \o visit.items]
         /\ known_type_decls' = visit.known
         /\ Returns(visit.items, visit.check_failed)

\* EmitIRItems at the end of a traversal that left seen_decls_ and the
\* comments of the call.
CallEmitIRItems ==
  /\ pc = "call" /\ call.fn = "EmitIRItems"
  /\ \E order \in IterationOrders({k \in DOMAIN seen_decls : Seen(k)}) :
       LET emitted == EmitIRItems(seen_decls, comment_manager.comments, order)
       IN  /\ call' = [call EXCEPT !.result = emitted]
           /\ ir' = [ir EXCEPT !.items = @ \o emitted]
  /\ pc' = "returned"
  /\ UNCHANGED <<ctx, pos, tu, entered, seen_decls, known_type_decls, comment_manager>>

NextCalls ==
  \/ CallConvertType
  \/ CallGetOwningTarget
  \/ CallVisitRecordDecl
  \/ CallVisitFunctionDecl
  \/ CallVisitTypedefNameDecl
  \/ CallEmitIRItems

SpecCalls == InitCalls /\ [][NextCalls]_vars

(***************************************************************************)
(* Properties of single calls.                                             *)
(***************************************************************************)
\* The call of fn has ended, with a result or in a failed CHECK.
Ended(fn) == call.fn = fn /\ pc \in {"returned", "aborted"}
Returned(fn) == call.fn = fn /\ pc = "returned"

\* A mapped type whose two sides have the given names and no type parameters
\* (the IsSimpleType matcher), no declaration ids and no lifetimes.
IsSimpleType(type, rs_name, cc_name) ==
  /\ type.cc.name = cc_name /\ type.cc.type_params = <<>> /\ type.cc.decl_id = NoDeclId
  /\ type.rs.name = rs_name /\ type.rs.type_params = <<>> /\ type.rs.decl_id = NoDeclId
  /\ type.rs.lifetime_args = <<>>

\* C11: ConvertType of a type whose unqualified spelling is in the
\* well-known table succeeds with the simple mapped type whose target name
\* is the tabulated one and whose C++ name is the spelling, whatever the
\* type is underneath (a builtin of any width or signedness, a typedef of
\* one), whatever its lifetimes and whatever known_type_decls_ holds.
C11_WellKnownShortCircuit ==
  (Ended("ConvertType") /\ call.args.qual_type.spelling \in DOMAIN kWellKnownTypes) =>
    /\ pc = "returned"
    /\ call.result.ok
    /\ IsSimpleType(call.result.type,
                    kWellKnownTypes[call.args.qual_type.spelling],
                    call.args.qual_type.spelling)

\* const size_t of a 32-bit target, not a known type: usize, not u32.
C11_Witness ==
  /\ Returned("ConvertType")
  /\ call.args.qual_type = ConstT(StdTypedefT("size_t", UIntT))
  /\ known_type_decls = {}
  /\ call.result.ok
  /\ call.result.type.rs.name = "usize"
  /\ call.result.type.cc.is_const

\* The target name of an integer of a width and signedness.
IntegerName(width, signed) ==
  CASE width = 8  -> IF signed THEN "i8" ELSE "u8"
    [] width = 16 -> IF signed THEN "i16" ELSE "u16"
    [] width = 32 -> IF signed THEN "i32" ELSE "u32"
    [] width = 64 -> IF signed THEN "i64" ELSE "u64"
    [] OTHER -> ""

IsBuiltinIntegerOutsideTable(t) ==
  t.k = "builtin" /\ t.bk = "Int" /\ t.spelling \notin DOMAIN kWellKnownTypes

\* C12: ConvertType of a builtin integer type whose spelling is not in the
\* well-known table returns, for a width of 8, 16, 32 or 64 bits, the simple
\* type named i<width> when signed and u<width> when unsigned, with the
\* C++ spelling kept; for any other width it returns the error
\* "Unsupported type '<spelling>'".
C12_IntegerByWidthAndSignedness ==
  (Ended("ConvertType") /\ IsBuiltinIntegerOutsideTable(call.args.qual_type)) =>
    LET t == call.args.qual_type
    IN  /\ pc = "returned"
        /\ IF t.size \in {8, 16, 32, 64}
           THEN /\ call.result.ok
                /\ IsSimpleType(call.result.type, IntegerName(t.size, t.signed), t.spelling)
           ELSE /\ ~call.result.ok
                /\ call.result.error
                     = "UNIMPLEMENTED: Unsupported type '" \o t.spelling \o "'"

\* unsigned __int128, 128 bits wide, has no mapping.
C12_Witness ==
  /\ Returned("ConvertType")
  /\ call.args.qual_type = BuiltinT("unsigned __int128", "Int", 128, FALSE)
  /\ ~call.result.ok
  /\ call.result.error = "UNIMPLEMENTED: Unsupported type 'unsigned __int128'"

\* The two sides of a mapped type are parallel: as many type parameters on
\* both, a pointer or reference on one side exactly when on the other and
\* then with one type parameter, a declaration id on both or on neither, and
\* the same of each pair of type parameters.
RECURSIVE Parallel(_, _)
Parallel(cc, rs) ==
  /\ Len(cc.type_params) = Len(rs.type_params)
  /\ cc.name = "*" <=> rs.name \in {"*mut", "*const"}
  /\ cc.name = "&" <=> rs.name \in {"&mut", "&"}
  /\ cc.name \in {"*", "&"} => Len(cc.type_params) = 1 /\ Len(rs.type_params) = 1
  /\ cc.decl_id = NoDeclId <=> rs.decl_id = NoDeclId
  /\ \A i \in DOMAIN cc.type_params : Parallel(cc.type_params[i], rs.type_params[i])

\* The pointer and reference layers of a C++ type, from the outermost, as
\* ConvertType peels them.
RECURSIVE Layers(_)
Layers(t) ==
  IF t.spelling \in DOMAIN kWellKnownTypes THEN <<>>
  ELSE IF getAs(t, "pointer") # None THEN <<"*">> \o Layers(getAs(t, "pointer")[1].inner[1])
  ELSE IF getAs(t, "lvalue_ref") # None
  THEN <<"&">> \o Layers(getAs(t, "lvalue_ref")[1].inner[1])
  ELSE <<>>

\* The layers of one side of a mapped type, from the outermost.
RECURSIVE CcLayers(_)
CcLayers(cc) ==
  IF cc.name \in {"*", "&"} THEN <<cc.name>> \o CcLayers(cc.type_params[1]) ELSE <<>>

\* C13: every MappedType that ConvertType returns is structurally parallel:
\* at every level the two sides have as many type parameters, a pointer or
\* reference layer has exactly one on both, the layers of the two sides nest
\* in the same order (that of the C++ type), and decl_id is set on both sides
\* or on neither.
C13_SidesParallel ==
  (Returned("ConvertType") /\ call.result.ok) =>
    /\ Parallel(call.result.type.cc, call.result.type.rs)
    /\ CcLayers(call.result.type.cc) = Layers(call.args.qual_type)

\* S*&: a reference to a pointer to a record, with declaration ids innermost.
C13_Witness ==
  /\ Returned("ConvertType") /\ call.result.ok
  /\ call.args.qual_type = LValueReferenceT(PointerT(TagT("S", "S")))
  /\ call.result.type.cc.name = "&" /\ call.result.type.rs.name = "&mut"
  /\ call.result.type.cc.type_params[1].name = "*"
  /\ call.result.type.rs.type_params[1].name = "*mut"
  /\ call.result.type.cc.type_params[1].type_params[1].decl_id # NoDeclId
  /\ call.result.type.rs.type_params[1].type_params[1].decl_id # NoDeclId

\* The lifetime arguments of the pointer and reference layers of the target
\* side of a mapped type, from the outermost.
RECURSIVE LayerLifetimes(_)
LayerLifetimes(rs) ==
  IF rs.name \in {"*mut", "*const", "&mut", "&"}
  THEN <<rs.lifetime_args>> \o LayerLifetimes(rs.type_params[1])
  ELSE <<>>

\* C14: when ConvertType is given a stack of at least k lifetimes for a type
\* with k nested pointer or reference layers, no CHECK fails and, in the type
\* it returns, the i-th layer from the outermost has the i-th lifetime from
\* the back of the stack: each layer takes one entry and leaves the prefix to
\* its pointee.  Without a stack no layer has a lifetime.
C14_LifetimesFromTheBack ==
  Ended("ConvertType") =>
    LET ids == call.args.lifetimes.ids
        k == Len(Layers(call.args.qual_type))
        got == LayerLifetimes(call.result.type.rs)
    IN  /\ (call.args.lifetimes.has /\ Len(ids) >= k) => pc = "returned"
        /\ (pc = "returned" /\ call.result.ok) =>
             /\ Len(got) = k
             /\ \A i \in 1..k :
                  got[i] = IF call.args.lifetimes.has
                           THEN Some(ids[Len(ids) - i + 1]) ELSE None

\* int** with the stack <<1, 2, 3>>: the outer pointer has 3, the inner 2.
C14_Witness ==
  /\ Returned("ConvertType") /\ call.result.ok
  /\ call.args.qual_type = PointerT(PointerT(IntT))
  /\ call.args.lifetimes = Lifetimes(<<1, 2, 3>>)
  /\ call.result.type.rs.lifetime_args = <<3>>
  /\ call.result.type.rs.type_params[1].lifetime_args = <<2>>

\* The locations that lead from a location outward: the location, where its
\* file is included, where that file is included, up to the main file.
RECURSIVE LocationChain(_)
LocationChain(l) ==
  IF l.f = NoFile THEN <<>> ELSE <<l>> \o LocationChain(Files[l.f].include)

IsSystem(l) == Files[l.f].system
IsUnnamed(l) == ~Files[l.f].named
HeaderName(l) ==
  IF Head(Files[l.f].name) = "./" THEN Tail(Files[l.f].name) ELSE Files[l.f].name
IsMapped(l) == Files[l.f].named /\ HeaderName(l) \in DOMAIN headers_to_targets

\* C15 as stated: GetOwningTarget returns the label of the first header of
\* the include chain, from the declaration's own file outward, that is a key
\* of headers_to_targets, for every chain that has one, a system header
\* included from a mapped header too.
C15_FirstMappedHeaderOfChain ==
  Returned("GetOwningTarget") =>
    LET chain == LocationChain(call.args.decl.loc)
        mapped == {i \in DOMAIN chain : IsMapped(chain[i])}
    IN  mapped # {} => call.result = headers_to_targets[HeaderName(chain[Min(mapped)])]

\* C15, amended: the walk outward stops at the first location that is in a
\* system header, in a buffer without a file name or in a header that is a
\* key of headers_to_targets (a leading "./" stripped).  GetOwningTarget
\* returns "//:virtual_clang_resource_dir_target" for the system header
\* (a key or not) and when the chain ends without such a location (the
\* invalid location too), "//:builtin" for the buffer, and the header's label
\* otherwise.
C15_FirstMappedHeaderBeforeSystemHeader ==
  Returned("GetOwningTarget") =>
    LET chain == LocationChain(call.args.decl.loc)
        stops == {i \in DOMAIN chain :
                    IsSystem(chain[i]) \/ IsUnnamed(chain[i]) \/ IsMapped(chain[i])}
    IN  call.result =
          IF stops = {} \/ IsSystem(chain[Min(stops)])
          THEN "//:virtual_clang_resource_dir_target"
          ELSE IF IsUnnamed(chain[Min(stops)]) THEN "//:builtin"
          ELSE headers_to_targets[HeaderName(chain[Min(stops)])]

\* A declaration of stddef.h, a system header included from a.h of //:cur.
C15_Witness ==
  /\ Returned("GetOwningTarget")
  /\ call.args.decl.loc = Loc("sys", 5)
  /\ IsMapped(Files["sys"].include)
  /\ call.result = "//:virtual_clang_resource_dir_target"

\* The Record that a returned VisitRecordDecl call pushed, if it pushed one.
PushedRecord == Returned("VisitRecordDecl") /\ Len(call.result) = 1
                  /\ call.result[1].kind = "Record"

\* The special member functions of a pushed Record with what the record's
\* definition writes of each and whether a declaration of another member
\* suppresses it when it is implicit.
SpecialMembers ==
  LET w == call.args.written
  IN  { [ func |-> call.result[1].copy_constructor, written |-> w.copy,
          suppressed |-> w.move.how # "implicit" ],
        [ func |-> call.result[1].move_constructor, written |-> w.move,
          suppressed |-> w.copy.how # "implicit" \/ w.dtor.how # "implicit" ],
        [ func |-> call.result[1].destructor, written |-> w.dtor, suppressed |-> FALSE ] }

\* What the tests of part_000 expect of records that declare one special
\* member and no field: <<copy, move, destructor as written>> and the
\* definitions expected of the <<copy, move, destructor>> that the test
\* looks at ("" where it does not).
TestedDefinitions ==
  { << <<"implicit", "implicit", "implicit">>, <<"trivial", "trivial", "trivial">> >>,
    << <<"default", "implicit", "implicit">>,  <<"trivial", "", "">> >>,
    << <<"define", "implicit", "implicit">>,   <<"nontrivial", "", "">> >>,
    << <<"delete", "implicit", "implicit">>,   <<"deleted", "", "">> >>,
    << <<"implicit", "define", "implicit">>,   <<"deleted", "nontrivial", "">> >>,
    << <<"implicit", "default", "implicit">>,  <<"", "trivial", "">> >>,
    << <<"implicit", "delete", "implicit">>,   <<"", "deleted", "">> >>,
    << <<"define", "implicit", "implicit">>,   <<"", "deleted", "">> >>,
    << <<"implicit", "implicit", "default">>,  <<"", "", "trivial">> >>,
    << <<"implicit", "implicit", "define">>,   <<"", "", "nontrivial">> >>,
    << <<"implicit", "implicit", "delete">>,   <<"", "", "deleted">> >> }

\* C16: the definition of the copy constructor, the move constructor and the
\* destructor of a pushed Record is "deleted" when the member is written
\* = delete or is implicit and suppressed by the declaration of another
\* member (the copy constructor by a declared move constructor, the move
\* constructor by a declared copy constructor), "trivial" when it is
\* implicit or written = default (the records here have no base and only
\* fields of builtin types, so that it is trivially generated), and
\* "nontrivial" when it is defined by the user; these are the definitions
\* that the tests expect.
C16_SpecialMemberDefinition ==
  PushedRecord =>
    /\ \A m \in SpecialMembers :
         m.func.definition =
           IF m.written.how = "delete" \/ (m.written.how = "implicit" /\ m.suppressed)
           THEN "deleted"
           ELSE IF m.written.how \in {"implicit", "default"} THEN "trivial"
           ELSE "nontrivial"
    /\ \A t \in TestedDefinitions :
         LET w == call.args.written
             r == call.result[1]
         IN  (~w.class /\ <<w.copy.how, w.move.how, w.dtor.how>> = t[1]) =>
               /\ t[2][1] # "" => r.copy_constructor.definition = t[2][1]
               /\ t[2][2] # "" => r.move_constructor.definition = t[2][2]
               /\ t[2][3] # "" => r.destructor.definition = t[2][3]

\* struct DeletedByCtorDef { DeletedByCtorDef(DeletedByCtorDef&&) {} }: the
\* copy constructor is deleted, the move constructor nontrivial, the
\* destructor trivial.
C16_Witness ==
  /\ PushedRecord
  /\ ~call.args.written.class
  /\ call.args.written.copy.how = "implicit"
  /\ call.args.written.move = [how |-> "define", section |-> "none"]
  /\ call.args.written.dtor.how = "implicit"
  /\ call.result[1].copy_constructor.definition = "deleted"
  /\ call.result[1].move_constructor.definition = "nontrivial"
  /\ call.result[1].destructor.definition = "trivial"

\* C17 as stated: the access of a special member function is, when the
\* member is implicit, public in a struct and private in a class, and, when
\* it is declared, that of the section it is declared in (the default of
\* the record before the first section).
C17_ImplicitMemberHasDefaultAccess ==
  PushedRecord =>
    \A m \in SpecialMembers :
      m.func.access =
        IF m.written.section = "private"
           \/ (m.written.section = "none" /\ call.args.written.class)
        THEN "kPrivate" ELSE "kPublic"

\* C17, amended: an implicit special member function is public in a struct
\* and in a class; a declared one has the access of the section it is
\* declared in, and before the first section that of the record: public in
\* a struct, private in a class.
C17_ImplicitMemberIsPublic ==
  PushedRecord =>
    \A m \in SpecialMembers :
      m.func.access =
        IF m.written.how # "implicit"
           /\ \/ m.written.section = "private"
              \/ (m.written.section = "none" /\ call.args.written.class)
        THEN "kPrivate" ELSE "kPublic"

\* class Implicit {}: the three members are public (the tests
\* PublicCopyConstructor, PublicMoveConstructor and PublicDestructor).
C17_Witness ==
  /\ PushedRecord
  /\ call.args.written.class
  /\ \A m \in SpecialMembers : m.written.how = "implicit" /\ m.func.access = "kPublic"

\* The access of a field as written: its section, or the default of the
\* record.
FieldAccess(field_decl, class) ==
  CASE field_decl.access = "public" -> "kPublic"
    [] field_decl.access = "protected" -> "kProtected"
    [] field_decl.access = "private" -> "kPrivate"
    [] OTHER -> IF class THEN "kPrivate" ELSE "kPublic"

\* C18: the fields of a pushed Record are the fields the record declares, in
\* their order: as many, and the i-th with the name of the i-th declared
\* field, the access of its section (before the first section public in a
\* struct, private in a class) and the bit offset the layout gives it.
C18_FieldsAsDeclared ==
  PushedRecord =>
    LET declared == call.args.record_decl.fields
        fields == call.result[1].fields
    IN  /\ Len(fields) = Len(declared)
        /\ \A i \in DOMAIN declared :
             /\ fields[i].identifier = declared[i].name
             /\ fields[i].access = FieldAccess(declared[i], call.args.written.class)
             /\ fields[i].offset = declared[i].offset

\* struct SomeStruct of MemberVariableAccessSpecifiers: four fields, public,
\* public, protected and private, at 0, 32, 64 and 96 bits.
C18_Witness ==
  /\ PushedRecord
  /\ ~call.args.written.class
  /\ Len(call.result[1].fields) = 4
  /\ [i \in 1..4 |-> call.result[1].fields[i].access]
       = <<"kPublic", "kPublic", "kProtected", "kPrivate">>
  /\ [i \in 1..4 |-> call.result[1].fields[i].offset] = <<0, 32, 64, 96>>
  /\ call.result[1].fields[3].identifier = "protected_int"

\* The Func that a returned VisitFunctionDecl call pushed, if it pushed one.
PushedFunc == Returned("VisitFunctionDecl") /\ call.result # <<>>
                /\ call.result[Len(call.result)].kind = "Func"

\* C19: the parameters of a pushed Func are, for a non-static member
\* function and for no other function, a first parameter __this whose type
\* is a pointer to the class, and then one parameter for each declared
\* parameter, in the order of the declaration; a declared parameter without
\* a name, the i-th of the declared ones counted from 0, is named __param_i.
C19_ThisThenDeclaredParams ==
  PushedFunc =>
    LET function_decl == call.args.function_decl
        declared == function_decl.params
        params == call.result[Len(call.result)].params
        has_this == function_decl.decl_context = "record" /\ function_decl.instance
        first == IF has_this THEN 1 ELSE 0
    IN  /\ Len(params) = first + Len(declared)
        /\ has_this =>
             /\ params[1].identifier = "__this"
             /\ params[1].type.cc.name = "*"
             /\ params[1].type.cc.type_params[1].name = "C"
             /\ params[1].type.cc.type_params[1].decl_id = "C"
        /\ \A i \in DOMAIN declared :
             /\ params[first + i].identifier # "__this"
             /\ params[first + i].identifier =
                  IF declared[i].name = "" THEN "__param_" \o ToString(i - 1)
                  ELSE declared[i].name
             /\ IsSimpleType(params[first + i].type, "i32", "int")

\* void C::m(int x1, int): __this, x1 and __param_1.
C19_Witness ==
  /\ PushedFunc
  /\ call.args.function_decl.instance
  /\ Len(call.args.function_decl.params) = 2
  /\ call.args.function_decl.params[1].name = "x1"
  /\ call.args.function_decl.params[2].name = ""
  /\ LET params == call.result[Len(call.result)].params
     IN  [i \in DOMAIN params |-> params[i].identifier] = <<"__this", "x1", "__param_1">>

(***************************************************************************)
(* The traversal of a translation unit with namespaces.                    *)
(*                                                                         *)
(*   // n.h                        (header of the current target)          *)
(*   namespace ns {                                                        *)
(*     void f();  void f();                                                *)
(*     struct R {};  typedef int T;                                        *)
(*     namespace inner { void g(); }                                       *)
(*   }                                                                     *)
(*   #include "o.h"                (header of another target)              *)
(*       namespace ns { void o(); }                                        *)
(*   namespace ns { void h(); }                                            *)
(*   void top();  void top();  struct Q {};  typedef int I;                *)
(***************************************************************************)
\* A declaration in the namespace that namespace_decl opens.
InNamespace(decl, namespace_decl) ==
  [ decl EXCEPT !.entity = "ns::" \o decl.name, !.qname = "ns::" \o decl.name,
                !.decl_context = "namespace", !.parent = namespace_decl,
                !.requires = {namespace_decl} ]

NamespaceDecls ==
  << NamespaceDecl("ns", "ns", "n", 2, 28),
     InNamespace(FunctionDecl("ns::f", "f", "n", 4, 5, 6, <<>>, VoidT, {}), "ns"),
     InNamespace(FunctionDecl("ns::f'", "f", "n", 7, 8, 9, <<>>, VoidT, {}), "ns"),
     InNamespace(RecordDecl("ns::R", "R", "ns::R", "n", 10, 12, <<>>, {}), "ns"),
     InNamespace(TypedefDecl("ns::T", "T", "n", 13, 15, IntT, {}), "ns"),
     InNamespace(NamespaceDecl("ns::inner", "inner", "n", 16, 21), "ns"),
     InNamespace(NamespaceDecl("ns::inner'", "inner", "n", 22, 26), "ns"),
     [ FunctionDecl("ns::inner::g", "g", "n", 18, 19, 20, <<>>, VoidT, {"ns::inner"}) EXCEPT
         !.entity = "ns::inner::g", !.qname = "ns::inner::g",
         !.decl_context = "namespace", !.parent = "ns::inner" ],
     [NamespaceDecl("ns@o", "ns", "o", 2, 9) EXCEPT !.entity = "ns"],
     InNamespace(FunctionDecl("ns::o", "o", "o", 4, 5, 6, <<>>, VoidT, {}), "ns@o"),
     [NamespaceDecl("ns'", "ns", "n", 32, 40) EXCEPT !.entity = "ns"],
     InNamespace(FunctionDecl("ns::h", "h", "n", 34, 35, 36, <<>>, VoidT, {}), "ns'"),
     FunctionDecl("top", "top", "n", 42, 43, 44, <<>>, VoidT, {}),
     FunctionDecl("top'", "top", "n", 45, 46, 47, <<>>, VoidT, {}),
     RecordDecl("Q", "Q", "Q", "n", 48, 50, <<>>, {}),
     TypedefDecl("I", "I", "n", 51, 53, IntT, {}) >>

InitNamespaces ==
  /\ ctx = NamespaceDecls
  /\ pc = "start"
  /\ pos = 0
  /\ tu = {}
  /\ entered = {}
  /\ seen_decls = [k \in {ctx[i].key : i \in DOMAIN ctx} |-> <<>>]
  /\ known_type_decls = {}
  /\ comment_manager = [ current_file |-> NoFile, file_comments |-> <<>>,
                         next_comment |-> 1, comments |-> <<>> ]
  /\ ir = [used_headers |-> <<>>, current_target |-> "", items |-> <<>>]
  /\ call = NoCall

SpecNamespaces == InitNamespaces /\ [][Next]_vars

(***************************************************************************)
(* Properties of the traversal of namespaces.                              *)
(***************************************************************************)
kInNamespaceMessage == "Items contained in namespaces are not supported yet"

\* The declarations traversed so far whose context is a namespace.
InNamespaceTraversed == {k \in tu : D(k).decl_context = "namespace"}

\* No declaration in a namespace is handed to the comment manager or to
\* Base::TraverseDecl, all that seen_decls_ holds for it are UnsupportedItems
\* with the message, and it holds one when the declaration is of the current
\* target.
InNamespaceOnlyUnsupported ==
  /\ [][pos' # pos /\ ctx[pos'].decl_context = "namespace"
          => comment_manager' = comment_manager /\ entered' = entered
             /\ known_type_decls' = known_type_decls]_vars
  /\ [](\A k \in InNamespaceTraversed :
          LET items == seen_decls[getCanonicalDecl(k, tu)]
          IN  /\ k \notin entered
              /\ \A i \in DOMAIN items :
                   items[i].kind = "UnsupportedItem" /\ items[i].message = kInNamespaceMessage
              /\ IsFromCurrentTarget(D(k)) => items # <<>>)

\* C20 as stated: a declaration whose context is a namespace is never
\* dispatched to an importer or to the comment manager, all that is
\* recorded for it is the UnsupportedItem "Items contained in namespaces are
\* not supported yet" (when it is of the current target), and the contents
\* of every namespace declaration traversed, a reopening too, are visited.
C20_NamespaceContentsUnsupportedAndVisited ==
  /\ InNamespaceOnlyUnsupported
  /\ [](\A k \in tu : D(k).kind = "namespace" /\ getCanonicalDecl(k, tu) # k
                        => k \in entered)

\* C20, amended: as above for the declarations in a namespace; the contents
\* are visited of every namespace declaration that is not itself in a
\* namespace, the first and every reopening of it.  A namespace in a
\* namespace is a declaration in a namespace: it gets the UnsupportedItem
\* and its contents are not visited.
C20_TopLevelNamespaceContentsVisited ==
  /\ InNamespaceOnlyUnsupported
  /\ [](\A k \in tu : D(k).kind = "namespace" =>
          (k \in entered <=> D(k).decl_context # "namespace"))

\* namespace ns { namespace inner {} namespace inner {} }: ns is entered,
\* both declarations of inner are traversed and get the UnsupportedItem, and
\* neither is entered.
C20_Witness ==
  /\ tu = {"ns", "ns::inner", "ns::inner'"}
  /\ entered = {"ns"}
  /\ Len(seen_decls["ns::inner"]) = 2
  /\ \A i \in 1..2 : seen_decls["ns::inner"][i].message = kInNamespaceMessage

(***************************************************************************)
(* Properties of the comment manager.                                      *)
(***************************************************************************)
\* The raw comment lies inside the extent of the declaration.
WithinExtent(comment, decl) ==
  /\ comment.begin.f = decl.begin.f
  /\ decl.begin.o < comment.begin.o
  /\ comment.begin.o < decl.end.o

\* C21: a comment that begins inside the extent of a declaration handed to
\* the comment manager, other than a namespace, is not among the emitted
\* Comment items.
C21_CommentWithinDeclNotEmitted ==
  pc = "done" =>
    \A k \in entered :
      D(k).kind # "namespace" =>
        \A c \in Range(Comments) :
          WithinExtent(c, D(k)) =>
            \A j \in DOMAIN ir.items : ir.items[j] # Comment(c.text)

\* C22: the traversal of a translation unit without a declaration, whose
\* files hold comments, emits no item, and used_headers lists the public
\* headers in their configured order.
C22_NoDeclarationNoItem ==
  pc = "done" /\ tu = {} =>
    /\ ir.items = <<>>
    /\ ir.used_headers = public_header_names
    /\ comment_manager.comments = <<>>

\* The traversal of no declaration has ended; the files hold comments and
\* two public headers are configured.
C22_Witness ==
  /\ pc = "done" /\ tu = {}
  /\ Comments # <<>>
  /\ ir.items = <<>>
  /\ ir.used_headers = << <<"a.h">>, <<"n.h">> >>

(***************************************************************************)
(* Completion of the traversal.  The visitor is one sequential loop over   *)
(* the declarations: a step that can be taken is taken.                    *)
(***************************************************************************)
SpecFair == Spec /\ WF_vars(Next)

\* C23: no CHECK and no LOG(FATAL) ends the traversal, and EmitIRItems is
\* eventually executed (the traversal reaches its end).
C23_RunsToCompletion == [](pc # "aborted") /\ <>(pc = "done")

\* C24: the is_final of a pushed Record is the parser's isEffectivelyFinal
\* for a C++ record, and false for a record that is not a C++ record.
C24_IsFinalOfRecord ==
  PushedRecord =>
    call.result[1].is_final =
      (IF call.args.record_decl.cxx THEN call.args.record_decl.final ELSE FALSE)

\* The typedef of a VisitTypedefNameDecl call that is about to be made for a
\* typedef nested in no function and no record.
TopLevelTypedefCalled ==
  /\ pc = "call" /\ call.fn = "VisitTypedefNameDecl"
  /\ call.args.typedef_name_decl.decl_context = "tu"

\* The underlying type of the typedef called for converts.
UnderlyingTypeConverts ==
  ConvertType(call.args.typedef_name_decl.underlying, NoLifetimes, kDefaultNullable,
              known_type_decls, tu).ok

\* The call for a typedef with a well-known spelling records nothing; for
\* another typedef whose underlying type converts it records one TypeAlias
\* and adds the typedef to known_type_decls.
TypedefSkippedOrAliased ==
  LET typedef_name_decl == call.args.typedef_name_decl
      items == seen_decls'[typedef_name_decl.key]
  IN  IF typedef_name_decl.name \in {"size_t", "int32_t"}
      THEN items = <<>> /\ known_type_decls' = known_type_decls
      ELSE UnderlyingTypeConverts =>
             /\ Len(items) = 1 /\ items[1].kind = "TypeAlias"
             /\ items[1].identifier = typedef_name_decl.name
             /\ known_type_decls' = known_type_decls \cup {typedef_name_decl.key}

\* C25 as stated: a top-level typedef with a well-known spelling records
\* nothing and leaves known_type_decls as it is; any other records one
\* TypeAlias and joins known_type_decls when its underlying type converts,
\* and records one UnsupportedItem and leaves known_type_decls as it is when
\* the conversion fails.
C25_TypedefAliasOrUnsupported ==
  [][TopLevelTypedefCalled =>
       /\ TypedefSkippedOrAliased
       /\ call.args.typedef_name_decl.name \notin {"size_t", "int32_t"}
            /\ ~UnderlyingTypeConverts
          => /\ Len(seen_decls'[call.args.typedef_name_decl.key]) = 1
             /\ seen_decls'[call.args.typedef_name_decl.key][1].kind = "UnsupportedItem"
             /\ known_type_decls' = known_type_decls]_vars

\* C25, amended: as above, but when the conversion fails the UnsupportedItem
\* is recorded only for a typedef of the current target; for a typedef of
\* another target nothing is recorded.
C25_TypedefAliasOrUnsupportedInCurrentTarget ==
  [][TopLevelTypedefCalled =>
       /\ TypedefSkippedOrAliased
       /\ call.args.typedef_name_decl.name \notin {"size_t", "int32_t"}
            /\ ~UnderlyingTypeConverts
          => LET items == seen_decls'[call.args.typedef_name_decl.key]
             IN  /\ known_type_decls' = known_type_decls
                 /\ IF call.args.typedef_name_decl.begin.f = "a"
                    THEN /\ Len(items) = 1 /\ items[1].kind = "UnsupportedItem"
                         /\ items[1].name = call.args.typedef_name_decl.name
                    ELSE items = <<>>]_vars

\* typedef int&& T; of b.h, a header of another target: the call returned,
\* nothing is recorded and T is not known.
C25_Witness ==
  /\ Returned("VisitTypedefNameDecl")
  /\ call.args.typedef_name_decl.name = "T"
  /\ call.args.typedef_name_decl.begin.f = "b"
  /\ call.args.typedef_name_decl.underlying = RValueReferenceT(IntT)
  /\ seen_decls["T"] = <<>>
  /\ "T" \notin known_type_decls

\* The field type points or refers to the record R itself.
RefersToSelf(type) ==
  /\ type.k \in {"pointer", "lvalue_ref"}
  /\ type.inner[1].k = "tag" /\ type.inner[1].decl = "R"

\* C26: a record with a field that is a pointer or reference to the record
\* itself is imported: the call pushes a Record, the record is in
\* known_type_decls, and the pointee of each such field names the record on
\* both sides with the DeclId that the Record itself has.
C26_SelfReferenceImported ==
  Returned("VisitRecordDecl")
    /\ (\E i \in DOMAIN call.args.record_decl.fields :
          RefersToSelf(call.args.record_decl.fields[i].type))
  => /\ Len(call.result) = 1
     /\ call.result[1].kind = "Record"
     /\ call.result[1].id = "R"
     /\ "R" \in known_type_decls
     /\ Len(call.result[1].fields) = Len(call.args.record_decl.fields)
     /\ \A i \in DOMAIN call.args.record_decl.fields :
          LET type == call.result[1].fields[i].type
          IN  /\ type.cc.name = IF call.args.record_decl.fields[i].type.k = "pointer"
                                THEN "*" ELSE "&"
              /\ Len(type.cc.type_params) = 1 /\ Len(type.rs.type_params) = 1
              /\ type.cc.type_params[1].name = "R"
              /\ type.cc.type_params[1].decl_id = call.result[1].id
              /\ type.rs.type_params[1].name = "R"
              /\ type.rs.type_params[1].decl_id = call.result[1].id

\* struct R { R* p; R& r; const R* c; }: the Record is pushed, with three
\* fields, a pointer, a reference and a pointer to const.
C26_Witness ==
  /\ PushedRecord
  /\ Len(call.args.record_decl.fields) = 3
  /\ \A i \in 1..3 : RefersToSelf(call.args.record_decl.fields[i].type)
  /\ [i \in 1..3 |-> call.result[1].fields[i].type.rs.name] = <<"*mut", "&mut", "*const">>
  /\ \A i \in 1..3 : call.result[1].fields[i].type.rs.type_params[1].decl_id = "R"

\* The nullable flags of the pointer and reference layers of the target side
\* of a mapped type, from the outermost.
RECURSIVE LayerNullables(_)
LayerNullables(rs) ==
  IF rs.name \in {"*mut", "*const", "&mut", "&"}
  THEN <<rs.nullable>> \o LayerNullables(rs.type_params[1])
  ELSE <<>>

SortLocation(item) ==
  IF item.kind = "Comment" THEN CommentBegin(item.text)
  ELSE D(CHOOSE k \in tu : item \in Range(seen_decls[k])).begin

\* The tuples that EmitIRItems sorts.
SortedTuples ==
  Range(CollectItems(seen_decls, comment_manager.comments,
                     CHOOSE order \in IterationOrders({k \in tu : Seen(k)}) : TRUE))

\* Neither tuple goes before the other one.
ItemEquivalent(a, b) == ~ItemLess(a, b) /\ ~ItemLess(b, a)

\* C28: in the sequence that EmitIRItems emitted, no item with a valid
\* location goes before an item with an invalid location, and the comparator
\* of the sort is a strict weak ordering of the sorted tuples: irreflexive,
\* asymmetric, transitive, and with a transitive equivalence.
C28_InvalidFirstStrictWeakOrdering ==
  Returned("EmitIRItems") =>
    /\ \A i, j \in DOMAIN call.result :
         i < j => ~(isValid(SortLocation(call.result[i])) /\
                    ~isValid(SortLocation(call.result[j])))
    /\ \A a \in SortedTuples : ~ItemLess(a, a)
    /\ \A a, b \in SortedTuples : ItemLess(a, b) => ~ItemLess(b, a)
    /\ \A a, b, c \in SortedTuples :
         /\ ItemLess(a, b) /\ ItemLess(b, c) => ItemLess(a, c)
         /\ ItemEquivalent(a, b) /\ ItemEquivalent(b, c) => ItemEquivalent(a, c)

\* EmitIRItems has emitted an item without a location in front of a comment
\* and of a record and a function that begin at the same location.
C28_Witness ==
  /\ Returned("EmitIRItems")
  /\ Len(call.result) >= 4
  /\ ~isValid(SortLocation(call.result[1]))
  /\ \E i, j \in DOMAIN call.result :
       /\ i < j
       /\ call.result[i].kind = "Record"
       /\ call.result[j].kind \in {"Func", "UnsupportedItem"}
       /\ SortLocation(call.result[i]) = SortLocation(call.result[j])
  /\ \E i \in DOMAIN call.result : call.result[i].kind = "Comment"


\* ---------------------------------------------------------------------
\* C29: known_type_decls and the declaration ids of the emitted types.

\* The declaration ids within one side (cc or rs) of a MappedType.
RECURSIVE DeclIdsOfSide(_)
DeclIdsOfSide(side) ==
  ({side.decl_id} \ {NoDeclId})
    \cup UNION {DeclIdsOfSide(side.type_params[i]) : i \in DOMAIN side.type_params}

DeclIdsOfType(type) == DeclIdsOfSide(type.cc) \cup DeclIdsOfSide(type.rs)

\* The declaration ids within the MappedTypes of an item.
DeclIdsOfItem(item) ==
  CASE item.kind = "Func" ->
         DeclIdsOfType(item.return_type)
           \cup UNION {DeclIdsOfType(item.params[i].type) : i \in DOMAIN item.params}
    [] item.kind = "Record" ->
         UNION {DeclIdsOfType(item.fields[i].type) : i \in DOMAIN item.fields}
    [] item.kind = "TypeAlias" -> DeclIdsOfType(item.underlying_type)
    [] OTHER -> {}

\* The ids of the Record and TypeAlias items of a sequence of items.
TypeItemIds(items) ==
  {items[i].id : i \in {j \in DOMAIN items : items[j].kind \in {"Record", "TypeAlias"}}}

\* The Record and TypeAlias items recorded in seen_decls_ so far.
RecordedTypeItemIds == UNION {TypeItemIds(seen_decls[k]) : k \in DOMAIN seen_decls}

\* C29: between the visits of the traversal, known_type_decls holds exactly
\* the declarations for which a Record or a TypeAlias has been recorded, and
\* every declaration id within a MappedType of an item of the final IR is
\* the id of a Record or TypeAlias of that IR.
C29_NoDanglingTypeReference ==
  /\ {GenerateDeclId(k, tu) : k \in known_type_decls} = RecordedTypeItemIds
  /\ pc = "done" =>
       \A i \in DOMAIN ir.items : DeclIdsOfItem(ir.items[i]) \subseteq TypeItemIds(ir.items)

\* The final IR of a traversal of the record P, of a function that returns
\* P, and of the record Bad, for which no Record was recorded because one of
\* its fields is not supported while another one refers to Bad itself.
C29_Witness ==
  /\ pc = "done"
  /\ tu = {"P", "MakeP", "Bad"}
  /\ known_type_decls = {"P"}
  /\ TypeItemIds(ir.items) = {"P"}
  /\ \E i \in DOMAIN ir.items :
       ir.items[i].kind = "Func" /\ DeclIdsOfItem(ir.items[i]) = {"P"}


\* ---------------------------------------------------------------------
\* C30: the comments of a file that the traversal leaves and returns to.

\* C30: in the final IR no raw comment is emitted as a Comment more than
\* once, whatever the order of the declarations over the files.
C30_CommentEmittedAtMostOnce ==
  pc = "done" =>
    \A i, j \in DOMAIN ir.items :
      /\ ir.items[i].kind = "Comment" /\ ir.items[j].kind = "Comment"
      /\ ir.items[i].text = ir.items[j].text
      => i = j

====
